---- MODULE Spec2Model ----
(***************************************************************************)
(* Model of pandoc-svg: the pandoc filter (lib/filter.js), the Resizer     *)
(* (lib/resize.js), the Optimizer driver (lib/optimize.js) and the helpers *)
(* of lib/utils.js.                                                        *)
(*                                                                         *)
(* JavaScript strings are sequences of one-character strings, so that the  *)
(* regular expressions, Number(), toPrecision() and number-to-string       *)
(* conversions of the code are computed character by character.  Numbers   *)
(* are exact non-negative rationals n/m whose numerator and denominator    *)
(* are digit sequences of unbounded length, plus NaN and Infinity.         *)
(***************************************************************************)
EXTENDS Integers, Sequences, FiniteSets, TLC

(***************************************************************************)
(* JavaScript values that are not strings.                                 *)
(***************************************************************************)
Null == <<"null">>
Undefined == <<"undefined">>

(***************************************************************************)
(* Natural numbers of unbounded length: digit sequences, most significant  *)
(* digit first, no leading zero; zero is the empty sequence.               *)
(***************************************************************************)
RECURSIVE Norm(_)
Norm(a) ==
  IF a = <<>> THEN <<>>
  ELSE IF Head(a) = 0 THEN Norm(Tail(a)) ELSE a

DigR(a, i) == IF i <= Len(a) THEN a[Len(a) + 1 - i] ELSE 0

Zeros(k) == [i \in 1..k |-> 0]

Pow10(k) == <<1>> \o Zeros(k)

RECURSIVE NatDigits(_)
NatDigits(k) == IF k = 0 THEN <<>> ELSE NatDigits(k \div 10) \o <<k % 10>>

RECURSIVE AddFrom(_, _, _, _)
AddFrom(a, b, i, c) ==
  IF i > Len(a) /\ i > Len(b) THEN NatDigits(c)
  ELSE LET s == DigR(a, i) + DigR(b, i) + c
       IN  AddFrom(a, b, i + 1, s \div 10) \o <<s % 10>>

BAdd(a, b) == Norm(AddFrom(a, b, 1, 0))

RECURSIVE MulDigitFrom(_, _, _, _)
MulDigitFrom(a, k, i, c) ==
  IF i > Len(a) THEN NatDigits(c)
  ELSE LET s == DigR(a, i) * k + c
       IN  MulDigitFrom(a, k, i + 1, s \div 10) \o <<s % 10>>

RECURSIVE BMul(_, _)
BMul(a, b) ==
  IF a = <<>> \/ b = <<>> THEN <<>>
  ELSE BAdd(BMul(a, SubSeq(b, 1, Len(b) - 1)) \o <<0>>,
            Norm(MulDigitFrom(a, b[Len(b)], 1, 0)))

RECURSIVE LexCmp(_, _)
LexCmp(a, b) ==
  IF a = <<>> THEN 0
  ELSE IF Head(a) < Head(b) THEN -1
  ELSE IF Head(a) > Head(b) THEN 1
  ELSE LexCmp(Tail(a), Tail(b))

BCmp(a, b) ==
  IF Len(a) < Len(b) THEN -1
  ELSE IF Len(a) > Len(b) THEN 1
  ELSE LexCmp(a, b)

RECURSIVE SubFrom(_, _, _, _)
SubFrom(a, b, i, borrow) ==
  IF i > Len(a) THEN <<>>
  ELSE LET s == DigR(a, i) - DigR(b, i) - borrow
       IN  IF s < 0 THEN SubFrom(a, b, i + 1, 1) \o <<s + 10>>
           ELSE SubFrom(a, b, i + 1, 0) \o <<s>>

BSub(a, b) == Norm(SubFrom(a, b, 1, 0))

RECURSIVE CountSub(_, _)
CountSub(r, b) ==
  IF BCmp(r, b) < 0 THEN [q |-> 0, r |-> r]
  ELSE LET x == CountSub(BSub(r, b), b)
       IN  [q |-> x.q + 1, r |-> x.r]

RECURSIVE LongDiv(_, _, _, _)
LongDiv(a, b, i, rem) ==
  IF i > Len(a) THEN <<>>
  ELSE LET step == CountSub(Norm(rem \o <<a[i]>>), b)
       IN  <<step.q>> \o LongDiv(a, b, i + 1, step.r)

\* floor(a / b), b > 0
BDiv(a, b) == Norm(LongDiv(a, b, 1, <<>>))

(***************************************************************************)
(* JavaScript numbers.  A finite number is the exact rational n/m.  The    *)
(* inputs of the model have few digits, so that no intermediate result is  *)
(* within a double's rounding error of a 10-digit rounding boundary and    *)
(* the exact quotient rounds as the double does.                           *)
(***************************************************************************)
NaN == [k |-> "nan", n |-> <<>>, m |-> <<1>>]
Infinity == [k |-> "inf", n |-> <<>>, m |-> <<1>>]
Fin(n, m) == [k |-> "fin", n |-> n, m |-> m]
Zero == Fin(<<>>, <<1>>)
One == Fin(<<1>>, <<1>>)

IsZero(x) == x.k = "fin" /\ x.n = <<>>

\* x * y
NMul(x, y) ==
  IF x.k = "nan" \/ y.k = "nan" THEN NaN
  ELSE IF x.k = "inf" \/ y.k = "inf"
       THEN (IF IsZero(x) \/ IsZero(y) THEN NaN ELSE Infinity)
  ELSE Fin(BMul(x.n, y.n), BMul(x.m, y.m))

\* x / y
NDiv(x, y) ==
  IF x.k = "nan" \/ y.k = "nan" THEN NaN
  ELSE IF x.k = "inf" THEN (IF y.k = "inf" THEN NaN ELSE Infinity)
  ELSE IF y.k = "inf" THEN Zero
  ELSE IF IsZero(y) THEN (IF IsZero(x) THEN NaN ELSE Infinity)
  ELSE IF IsZero(x) THEN Zero
  ELSE Fin(BMul(x.n, y.m), BMul(x.m, y.n))

\* r * 10^(-s) with the trailing zeros of the fraction removed
RECURSIVE Decimal(_, _)
Decimal(r, s) ==
  IF r = <<>> THEN Zero
  ELSE IF s > 0 /\ r[Len(r)] = 0 THEN Decimal(SubSeq(r, 1, Len(r) - 1), s - 1)
  ELSE Fin(r, Pow10(s))

PrecisionDigits == 10

\* number.toPrecision(10) read back by parseFloat
round(x) ==
  IF x.k # "fin" THEN x
  ELSE IF x.n = <<>> THEN Zero
  ELSE LET k == PrecisionDigits + 1 + Len(x.m) - Len(x.n)
           nn == IF k >= 0 THEN x.n \o Zeros(k) ELSE x.n
           mm == IF k >= 0 THEN x.m ELSE x.m \o Zeros(0 - k)
           Q == BDiv(nn, mm)
           mant == SubSeq(Q, 1, PrecisionDigits)
           r == IF Q[PrecisionDigits + 1] >= 5 THEN BAdd(mant, <<1>>) ELSE mant
           e == Len(Q) - PrecisionDigits - k
       IN  IF e >= 0 THEN Fin(r \o Zeros(e), <<1>>) ELSE Decimal(r, 0 - e)

(***************************************************************************)
(* Conversions between strings and numbers.                                *)
(***************************************************************************)
DigitChars == <<"0", "1", "2", "3", "4", "5", "6", "7", "8", "9">>

IsDigit(c) == \E i \in 1..10 : DigitChars[i] = c

DigitOf(c) == (CHOOSE i \in 1..10 : DigitChars[i] = c) - 1

DigitsToChars(a) == [i \in 1..Len(a) |-> DigitChars[a[i] + 1]]

CharsToDigits(s) == [i \in 1..Len(s) |-> DigitOf(s[i])]

\* Number(string) for strings without sign, exponent, radix prefix or blanks
Number(s) ==
  LET dots == {i \in 1..Len(s) : s[i] = "."}
      digs == SelectSeq(s, IsDigit)
  IN  IF s = <<>> THEN Zero
      ELSE IF (\A i \in 1..Len(s) : IsDigit(s[i]) \/ s[i] = ".")
              /\ Cardinality(dots) <= 1 /\ digs # <<>>
           THEN Fin(Norm(CharsToDigits(digs)),
                    Pow10(IF dots = {} THEN 0
                          ELSE Len(s) - (CHOOSE i \in dots : TRUE)))
      ELSE NaN

\* String(number) for a number that round produced (10^-6 <= x < 10^21)
NumberToString(x) ==
  IF x.k = "nan" THEN <<"N", "a", "N">>
  ELSE IF x.k = "inf" THEN <<"I", "n", "f", "i", "n", "i", "t", "y">>
  ELSE IF x.n = <<>> THEN <<"0">>
  ELSE LET s == Len(x.m) - 1
           ds == DigitsToChars(x.n)
       IN  IF s = 0 THEN ds
           ELSE IF Len(ds) > s
                THEN SubSeq(ds, 1, Len(ds) - s) \o <<".">>
                       \o SubSeq(ds, Len(ds) - s + 1, Len(ds))
           ELSE <<"0", ".">> \o DigitsToChars(Zeros(s - Len(ds))) \o ds

(***************************************************************************)
(* lib/resize.js                                                           *)
(***************************************************************************)
IsNumChar(c) == IsDigit(c) \/ c = "."

\* a value handed to RegExp.prototype.exec is converted to a string first
RegexSubject(v) ==
  IF v = Null THEN <<"n", "u", "l", "l">>
  ELSE IF v = Undefined THEN <<"u", "n", "d", "e", "f", "i", "n", "e", "d">>
  ELSE v

NoMatch == [match |-> FALSE, val |-> <<>>, unit |-> <<>>]

\* /^(?<val>[\d\.]+)(?<unit>[^\d\.]*)$/ .exec(dim)
dimRegex(dim) ==
  LET s == RegexSubject(dim)
      k == Cardinality({i \in 1..Len(s) : \A j \in 1..i : IsNumChar(s[j])})
  IN  IF k > 0 /\ \A i \in (k + 1)..Len(s) : ~IsNumChar(s[i])
      THEN [match |-> TRUE, val |-> SubSeq(s, 1, k),
            unit |-> SubSeq(s, k + 1, Len(s))]
      ELSE NoMatch

Lit(k) == Fin(NatDigits(k), <<1>>)

abs2PXKeys == {<<>>, <<"p", "x">>, <<"c", "m">>, <<"m", "m">>, <<"i", "n">>, <<"p", "t">>, <<"p", "c">>, <<"Q">>}

\* names every object inherits from Object.prototype (a selection)
ObjectPrototypeKeys == {<<"t", "o", "S", "t", "r", "i", "n", "g">>, <<"v", "a", "l", "u", "e", "O", "f">>, <<"c", "o", "n", "s", "t", "r", "u", "c", "t", "o", "r">>}

\* abs2PX with the factor 0.1 of the millimetre left out
abs2PXmmAsCm(unit) ==
  CASE unit = <<>> -> Lit(1)
    [] unit = <<"p", "x">> -> Lit(1)
    [] unit = <<"c", "m">> -> Number(<<"3", "7", ".", "8">>)
    [] unit = <<"m", "m">> -> Number(<<"3", "7", ".", "8">>)
    [] unit = <<"i", "n">> -> Lit(96)
    [] unit = <<"p", "t">> -> NMul(NDiv(Lit(1), Lit(72)), Lit(96))
    [] unit = <<"p", "c">> -> NMul(NDiv(Lit(1), Lit(6)), Lit(96))
    [] unit = <<"Q">> -> NMul(NDiv(Lit(1), Lit(40)), Number(<<"3", "7", ".", "8">>))
    [] OTHER -> NaN

\* abs2PX[unit], as a number: a missing key and an inherited function give NaN
abs2PX(unit) ==
  CASE unit = <<>> -> Lit(1)
    [] unit = <<"p", "x">> -> Lit(1)
    [] unit = <<"c", "m">> -> Number(<<"3", "7", ".", "8">>)
    [] unit = <<"m", "m">> -> NMul(Number(<<"0", ".", "1">>), Number(<<"3", "7", ".", "8">>))
    [] unit = <<"i", "n">> -> Lit(96)
    [] unit = <<"p", "t">> -> NMul(NDiv(Lit(1), Lit(72)), Lit(96))
    [] unit = <<"p", "c">> -> NMul(NDiv(Lit(1), Lit(6)), Lit(96))
    [] unit = <<"Q">> -> NMul(NDiv(Lit(1), Lit(40)), Number(<<"3", "7", ".", "8">>))
    [] OTHER -> NaN

\* unit in abs2PX
inAbs2PX(unit) == unit \in abs2PXKeys \/ unit \in ObjectPrototypeKeys

relUnits == {
    <<"e", "m">>,
    <<"e", "x">>,
    <<"c", "h">>,
    <<"r", "e", "m">>,
    <<"l", "h">>,
    <<"r", "l", "h">>,
    <<"v", "w">>,
    <<"v", "h">>,
    <<"v", "m", "i", "n">>,
    <<"v", "m", "a", "x">>,
    <<"v", "b">>,
    <<"v", "i">>,
    <<"s", "v", "w">>,
    <<"s", "v", "h">>,
    <<"l", "v", "w">>,
    <<"l", "v", "h">>,
    <<"d", "v", "w">>,
    <<"d", "v", "h">>}

dimValid(dim) ==
  LET match == dimRegex(dim)
  IN  match.match /\ (inAbs2PX(match.unit) \/ match.unit \in relUnits)

pandocUnits == {<<"p", "x">>, <<"c", "m">>, <<"m", "m">>, <<"i", "n">>, <<"i", "n", "c", "h">>, <<"%">>}

pandocDimValid(dim) ==
  LET match == dimRegex(dim)
  IN  match.match /\ match.unit \in pandocUnits

\* string.replace(pat, rep) with a string pattern: the first occurrence only
replace(s, pat, rep) ==
  LET hits == {i \in 1..(Len(s) - Len(pat) + 1) :
                 SubSeq(s, i, i + Len(pat) - 1) = pat}
  IN  IF hits = {} THEN s
      ELSE LET i == CHOOSE h \in hits : \A g \in hits : h <= g
           IN  SubSeq(s, 1, i - 1) \o rep \o SubSeq(s, i + Len(pat), Len(s))

applyWidthHeight(svgDOM, width, height) ==
  [svgDOM EXCEPT !.width = width, !.height = height]

\* scaleFactor as the operand of `*`: 1 when undefined, else Number(string)
scaleFactorOf(dimObj) ==
  IF dimObj.scaleFactor = Undefined THEN Lit(1) ELSE Number(dimObj.scaleFactor)

svgWidthVal(svgDOM) == Number(dimRegex(svgDOM.width).val)
svgHeightVal(svgDOM) == Number(dimRegex(svgDOM.height).val)
svgWidthUnit(svgDOM) == dimRegex(svgDOM.width).unit
svgHeightUnit(svgDOM) == dimRegex(svgDOM.height).unit

svgWidthInPX(svgDOM) ==
  round(NMul(svgWidthVal(svgDOM), abs2PX(svgWidthUnit(svgDOM))))
svgHeightInPX(svgDOM) ==
  round(NMul(svgHeightVal(svgDOM), abs2PX(svgHeightUnit(svgDOM))))

aspectRatio(svgDOM) == NDiv(svgWidthInPX(svgDOM), svgHeightInPX(svgDOM))

\* SVG must have valid width and height specified
sourceValid(svgDOM) == dimValid(svgDOM.width) /\ dimValid(svgDOM.height)

\* sourceRelative asking for both units to be relative
sourceRelativeBoth(svgDOM) ==
  svgWidthUnit(svgDOM) \in relUnits /\ svgHeightUnit(svgDOM) \in relUnits

\* either of the SVG's units is relative
sourceRelative(svgDOM) ==
  svgWidthUnit(svgDOM) \in relUnits \/ svgHeightUnit(svgDOM) \in relUnits

\* apply scale factor only
scaleRelative(svgDOM, scaleFactor) ==
  applyWidthHeight(svgDOM,
    NumberToString(round(NMul(scaleFactor, svgWidthVal(svgDOM))))
      \o svgWidthUnit(svgDOM),
    NumberToString(round(NMul(scaleFactor, svgHeightVal(svgDOM))))
      \o svgHeightUnit(svgDOM))

\* convertToEm without the scale factor
convertToEmUnscaled(svgDOM, scaleFactor) ==
  applyWidthHeight(svgDOM,
    NumberToString(round(NDiv(svgWidthInPX(svgDOM), Lit(16)))) \o <<"e", "m">>,
    NumberToString(round(NDiv(svgHeightInPX(svgDOM), Lit(16)))) \o <<"e", "m">>)

\* convertToEm leaving the unit px on the converted values
convertToEmAsPx(svgDOM, scaleFactor) ==
  applyWidthHeight(svgDOM,
    NumberToString(round(NDiv(NMul(scaleFactor, svgWidthInPX(svgDOM)), Lit(16))))
      \o <<"p", "x">>,
    NumberToString(round(NDiv(NMul(scaleFactor, svgHeightInPX(svgDOM)), Lit(16))))
      \o <<"p", "x">>)

\* neither width nor height supplied: convert to em
convertToEm(svgDOM, scaleFactor) ==
  applyWidthHeight(svgDOM,
    NumberToString(round(NDiv(NMul(scaleFactor, svgWidthInPX(svgDOM)), Lit(16))))
      \o <<"e", "m">>,
    NumberToString(round(NDiv(NMul(scaleFactor, svgHeightInPX(svgDOM)), Lit(16))))
      \o <<"e", "m">>)

\* only height supplied
applyHeight(svgDOM, height0) ==
  IF ~pandocDimValid(height0) THEN svgDOM
  ELSE LET height == replace(height0, <<"i", "n", "c", "h">>, <<"i", "n">>)
           heightMatch == dimRegex(height)
       IN  applyWidthHeight(svgDOM,
             NumberToString(round(NMul(Number(heightMatch.val), aspectRatio(svgDOM))))
               \o heightMatch.unit,
             height)

\* only width supplied
applyWidth(svgDOM, width0) ==
  IF ~pandocDimValid(width0) THEN svgDOM
  ELSE LET width == replace(width0, <<"i", "n", "c", "h">>, <<"i", "n">>)
           widthMatch == dimRegex(width)
       IN  applyWidthHeight(svgDOM,
             width,
             NumberToString(round(NDiv(Number(widthMatch.val), aspectRatio(svgDOM))))
               \o widthMatch.unit)

\* applyBoth validating the width only
applyBothWidthChecked(svgDOM, width, height) ==
  IF ~pandocDimValid(width) THEN svgDOM
  ELSE applyWidthHeight(svgDOM, replace(width, <<"i", "n", "c", "h">>, <<"i", "n">>), replace(height, <<"i", "n", "c", "h">>, <<"i", "n">>))

\* both width and height supplied
applyBoth(svgDOM, width, height) ==
  IF ~pandocDimValid(width) \/ ~pandocDimValid(height) THEN svgDOM
  ELSE applyWidthHeight(svgDOM, replace(width, <<"i", "n", "c", "h">>, <<"i", "n">>), replace(height, <<"i", "n", "c", "h">>, <<"i", "n">>))

resize(svgDOM, dimObj) ==
  IF ~sourceValid(svgDOM) THEN svgDOM
  ELSE IF sourceRelative(svgDOM) THEN scaleRelative(svgDOM, scaleFactorOf(dimObj))
  ELSE IF dimObj.width = Undefined /\ dimObj.height = Undefined
       THEN convertToEm(svgDOM, scaleFactorOf(dimObj))
  ELSE IF dimObj.width = Undefined THEN applyHeight(svgDOM, dimObj.height)
  ELSE IF dimObj.height = Undefined THEN applyWidth(svgDOM, dimObj.width)
  ELSE applyBoth(svgDOM, dimObj.width, dimObj.height)

(***************************************************************************)
(* lib/utils.js: predicates on the arguments of the filter                 *)
(***************************************************************************)
startsWith(s, prefix) ==
  Len(s) >= Len(prefix) /\ SubSeq(s, 1, Len(prefix)) = prefix

endsWith(s, suffix) ==
  Len(s) >= Len(suffix) /\ SubSeq(s, Len(s) - Len(suffix) + 1, Len(s)) = suffix

formats == {"html"}

isImage(key) == key = "Image"

\* value[0] of an empty array is undefined and value[0]['t'] a TypeError
isFigureThrows(key, value) == key = "Para" /\ value.kids = <<>>

isFigure(key, value) ==
  /\ key = "Para"
  /\ value.kids # <<>>
  /\ value.kids[1].t = "Image"
  /\ startsWith(value.kids[1].c.img.title, <<"f", "i", "g", ":">>)

\* /.*\.(?:svg|SVG)$/
isSVG(fname) == endsWith(fname, <<".", "s", "v", "g">>) \/ endsWith(fname, <<".", "S", "V", "G">>)

\* Array.prototype.splice(indexOf(x), 1) on an array that includes x
spliceOut(arr, x) ==
  LET i == CHOOSE j \in 1..Len(arr) : arr[j] = x /\ \A h \in 1..(j - 1) : arr[h] # x
  IN  SubSeq(arr, 1, i - 1) \o SubSeq(arr, i + 1, Len(arr))

includes(arr, x) == \E j \in 1..Len(arr) : arr[j] = x

(***************************************************************************)
(* lib/text2foreignObject.js.  The tree is the root element's attributes   *)
(* and the list of the elements below it; a text element is its font-size  *)
(* and text-anchor style properties ("" when absent) and its flattened     *)
(* content; a foreignObject has a text-align style property and the list   *)
(* of its top-level children.                                              *)
(***************************************************************************)
TextElt(fontSize, textAnchor, markdown) ==
  [tag |-> "text", fontSize |-> fontSize, textAnchor |-> textAnchor,
   markdown |-> markdown, spanHeight |-> <<>>, marginTop |-> <<>>,
   textAlign |-> "", kids |-> <<>>,
   x |-> Null, y |-> Null, transform |-> Null, inlineSize |-> <<>>,
   fontFamily |-> <<>>, fill |-> <<>>, opacity |-> <<>>]

\* an element that is not a text element
PathElt ==
  [tag |-> "path", fontSize |-> <<>>, textAnchor |-> "", markdown |-> <<>>,
   spanHeight |-> <<>>, marginTop |-> <<>>, textAlign |-> "", kids |-> <<>>]

\* a child element of a text element: the font-size of its style (<<>> when
\* it has none) and its innerHTML, plain characters
Tspan(fontSize, innerHTML) ==
  [tag |-> "tspan", fontSize |-> fontSize, innerHTML |-> innerHTML]

\* flattenTextChildren: each child in turn gives its font-size, when it has
\* one, to the text element and is replaced by its innerHTML; markdown is
\* the content of the text element in front of its child elements
RECURSIVE flattenTextChildren(_)
flattenTextChildren(textElt) ==
  IF textElt.kids = <<>> THEN textElt
  ELSE LET child == Head(textElt.kids)
       IN  flattenTextChildren(
             [textElt EXCEPT
                !.fontSize = IF child.fontSize # <<>> THEN child.fontSize ELSE @,
                !.markdown = @ \o child.innerHTML,
                !.kids = Tail(@)])

\* /(?<size>[\d\.]+)px/ .exec(fontSize): the leftmost run of digits and dots
\* that is followed by px
fontSizeRegex(fontSize) ==
  LET s == fontSize
      runEnd(i) == CHOOSE j \in i..Len(s) :
                     /\ \A h \in i..j : IsNumChar(s[h])
                     /\ (j = Len(s) \/ ~IsNumChar(s[j + 1]))
      starts == {i \in 1..Len(s) :
                   /\ IsNumChar(s[i])
                   /\ runEnd(i) + 2 <= Len(s)
                   /\ SubSeq(s, runEnd(i) + 1, runEnd(i) + 2) = <<"p", "x">>}
  IN  IF starts = {} THEN NoMatch
      ELSE LET i == CHOOSE h \in starts : \A g \in starts : h <= g
           IN  [match |-> TRUE, val |-> SubSeq(s, i, runEnd(i)), unit |-> <<"p", "x">>]

\* Math.ceil
ceil(x) ==
  IF x.k # "fin" THEN x
  ELSE LET q == BDiv(x.n, x.m)
       IN  IF BMul(q, x.m) = x.n THEN Fin(q, <<1>>) ELSE Fin(BAdd(q, <<1>>), <<1>>)

multFactor == 20

fontSizeOf(textElt) ==
  IF textElt.fontSize = <<>> THEN <<"1", "6", "p", "x">> ELSE textElt.fontSize

\* xTimesFontSize without Math.ceil
xTimesFontSizeUnrounded(fontSize) ==
  NumberToString(NMul(Lit(multFactor), Number(fontSizeRegex(fontSize).val)))
    \o <<"p", "x">>

xTimesFontSize(fontSize) ==
  NumberToString(ceil(NMul(Lit(multFactor), Number(fontSizeRegex(fontSize).val))))
    \o <<"p", "x">>

\* /^\$[^\$]+\$/ .exec(markdown)
equationRegex(markdown) ==
  /\ Len(markdown) >= 3
  /\ markdown[1] = "$"
  /\ markdown[2] # "$"
  /\ \E j \in 3..Len(markdown) : markdown[j] = "$"

\* the blocks pandoc makes of markdown: the paragraphs that blank lines
\* separate, none for blank markdown
RECURSIVE paragraphs(_)
paragraphs(markdown) ==
  IF \A i \in 1..Len(markdown) : markdown[i] \in {" ", "\n"} THEN <<>>
  ELSE LET breaks == {i \in 1..(Len(markdown) - 1) :
                        markdown[i] = "\n" /\ markdown[i + 1] = "\n"}
       IN  IF breaks = {} THEN <<markdown>>
           ELSE LET i == CHOOSE h \in breaks : \A g \in breaks : h <= g
                IN  (IF i = 1 THEN <<>> ELSE <<SubSeq(markdown, 1, i - 1)>>)
                      \o paragraphs(SubSeq(markdown, i + 2, Len(markdown)))

\* text.replace(/\$(.+?)\$/g, '\\($1\\)'): every $...$ on one line, from the
\* left, each as short as it can be
RECURSIVE convertMathJaxDelimiters(_)
convertMathJaxDelimiters(text) ==
  LET ends(i) == {j \in (i + 2)..Len(text) :
                    /\ text[j] = "$"
                    /\ \A h \in (i + 1)..(j - 1) : text[h] # "\n"}
      starts == {i \in 1..Len(text) : text[i] = "$" /\ ends(i) # {}}
  IN  IF starts = {} THEN text
      ELSE LET i == CHOOSE h \in starts : \A g \in starts : h <= g
               j == CHOOSE h \in ends(i) : \A g \in ends(i) : h <= g
           IN  SubSeq(text, 1, i - 1) \o <<"\\", "(">> \o SubSeq(text, i + 1, j - 1)
                 \o <<"\\", ")">> \o convertMathJaxDelimiters(SubSeq(text, j + 1, Len(text)))

\* md2html: the top-level elements of the HTML it returns.  The one of an
\* equation is a p around a span of class math inline with the converted
\* text; the others are what pandoc makes of each paragraph (by names the
\* converter, text is what it was given or gave back)
md2html(markdown) ==
  IF equationRegex(markdown)
  THEN <<[by |-> "convertMathJaxDelimiters",
          text |-> convertMathJaxDelimiters(markdown)]>>
  ELSE [i \in 1..Len(paragraphs(markdown)) |->
          [by |-> "pandoc", text |-> paragraphs(markdown)[i]]]

\* lines 131-145 taking end for middle
anchorShiftEndAsMiddle(textAnchor) ==
  IF textAnchor \in {"middle", "end"}
  THEN [translateX |-> <<"-", "5", "0">>, textAlign |-> "center"]
  ELSE [translateX |-> <<"0">>, textAlign |-> "start"]

\* lines 131-145: translateX and textAlign
anchorShift(textAnchor) ==
  IF textAnchor = "middle"
  THEN [translateX |-> <<"-", "5", "0">>, textAlign |-> "center"]
  ELSE IF textAnchor = "end"
       THEN [translateX |-> <<"-", "1", "0", "0">>, textAlign |-> "end"]
  ELSE [translateX |-> <<"0">>, textAlign |-> "start"]

\* lines 146-151: the children of the foreignObject and its text-align; a
\* child has no span in front and no margin-top yet
foreignObjectChildren(html, textAnchor) ==
  LET shift == anchorShift(textAnchor)
  IN  [i \in 1..Len(html) |->
         [html |-> html[i],
          transform |-> IF shift.translateX # <<"0">>
                        THEN <<"t", "r", "a", "n", "s", "l", "a", "t", "e", "X", "(">>
                               \o shift.translateX \o <<"%", ")">>
                        ELSE <<>>,
          span |-> <<>>, marginTop |-> <<>>]]

\* lines 25-153: the attributes (setAttribute of null writes "null"), the
\* style, and the children, the first of them with the span prepended and
\* the margin-top (lines 119-129)
foreignObject(textElt) ==
  [tag |-> "foreignObject", fontSize |-> fontSizeOf(textElt), textAnchor |-> "",
   markdown |-> textElt.markdown,
   spanHeight |-> xTimesFontSize(fontSizeOf(textElt)),
   marginTop |-> <<"-">> \o xTimesFontSize(fontSizeOf(textElt)),
   textAlign |-> IF anchorShift(textElt.textAnchor).translateX # <<"0">>
                 THEN anchorShift(textElt.textAnchor).textAlign ELSE "",
   kids |-> LET children == foreignObjectChildren(md2html(textElt.markdown),
                                                  textElt.textAnchor)
            IN  [i \in 1..Len(children) |->
                   IF i = 1
                   THEN [children[i] EXCEPT
                           !.span = [height |-> xTimesFontSize(fontSizeOf(textElt)),
                                     display |-> "inline-block"],
                           !.marginTop = <<"-">> \o xTimesFontSize(fontSizeOf(textElt))]
                   ELSE children[i]],
   x |-> IF textElt.x = Null THEN <<"n", "u", "l", "l">> ELSE textElt.x,
   y |-> IF textElt.y = Null THEN <<"n", "u", "l", "l">> ELSE textElt.y,
   width |-> IF textElt.inlineSize # <<>> THEN textElt.inlineSize
             ELSE <<"1", "0", "0", "0">>,
   height |-> <<"1">>,
   overflow |-> "visible",
   transform |-> IF textElt.transform \notin {Null, <<>>} THEN textElt.transform
                 ELSE Null,
   fontFamily |-> textElt.fontFamily,
   color |-> textElt.fill,
   opacity |-> textElt.opacity]

\* lines 121-126: .groups of null when the font-size has no px, children[0]
\* undefined when the HTML has no element
converterThrows(textElt) ==
  \/ ~fontSizeRegex(fontSizeOf(textElt)).match
  \/ md2html(textElt.markdown) = <<>>

\* text2foreignObject leaving the empty text elements in the tree
RECURSIVE text2foreignObjectKeepsEmpty(_)
text2foreignObjectKeepsEmpty(elts) ==
  IF elts = <<>> THEN [elts |-> <<>>, threw |-> FALSE]
  ELSE LET textElt == IF Head(elts).tag = "text"
                      THEN flattenTextChildren(Head(elts)) ELSE Head(elts)
           rest == text2foreignObjectKeepsEmpty(Tail(elts))
       IN  IF textElt.tag # "text" \/ textElt.markdown = <<>>
           THEN [elts |-> <<textElt>> \o rest.elts, threw |-> rest.threw]
           ELSE IF converterThrows(textElt)
                THEN [elts |-> <<textElt>> \o Tail(elts), threw |-> TRUE]
           ELSE [elts |-> <<foreignObject(textElt)>> \o rest.elts,
                 threw |-> rest.threw]

\* the forEach over the text elements: each is flattened; an empty one is
\* removed, the others are replaced in turn; a throw leaves the rest of the
\* list as it was
RECURSIVE text2foreignObject(_)
text2foreignObject(elts) ==
  IF elts = <<>> THEN [elts |-> <<>>, threw |-> FALSE]
  ELSE LET textElt == IF Head(elts).tag = "text"
                      THEN flattenTextChildren(Head(elts)) ELSE Head(elts)
           rest == text2foreignObject(Tail(elts))
       IN  IF textElt.tag # "text"
           THEN [elts |-> <<textElt>> \o rest.elts, threw |-> rest.threw]
           ELSE IF textElt.markdown = <<>> THEN rest
           ELSE IF converterThrows(textElt)
                THEN [elts |-> <<textElt>> \o Tail(elts), threw |-> TRUE]
           ELSE [elts |-> <<foreignObject(textElt)>> \o rest.elts,
                 threw |-> rest.threw]

(***************************************************************************)
(* State.                                                                  *)
(***************************************************************************)
VARIABLES
  printedOutputFormatErrorMsg, \* utils.js: flag of the output format message
  filesNotFound,               \* utils.js: paths already reported missing
  stderr,                      \* what console.error has printed, in order
  pc,                          \* position of the running filter call
  args,                        \* arguments of the current or last call
  loc,                         \* filter's locals: id, classes, keyvals, ...
  svgDOM,                      \* the document tree the passes share
  passes,                      \* passes the current filter call has run
  ret,                         \* what the last finished call returned
  ncalls,                      \* calls made so far
  unsupportedCalls,            \* history: calls with an unsupported format
  missingLoads,                \* history: per path, loads that found it missing
  before,                      \* history: the tree before the last resize
  dimObj                       \* history: the options of the last resize

vars == <<printedOutputFormatErrorMsg, filesNotFound, stderr, pc, args, loc,
          svgDOM, passes, ret, ncalls, unsupportedCalls, missingLoads, before,
          dimObj>>

memo == <<printedOutputFormatErrorMsg, filesNotFound, stderr>>

(***************************************************************************)
(* Bounds and inputs.                                                      *)
(***************************************************************************)
MaxCalls == 3

Doc(width, height, elts) ==
  [width |-> width, height |-> height, id |-> Null, attrs |-> <<>>,
   className |-> Undefined, elts |-> elts]

NoDoc == Doc(Null, Null, <<>>)

NoDimObj == [scaleFactor |-> Undefined, width |-> Undefined, height |-> Undefined]

Docs ==
  {Doc(<<"2", "1", "0", "m", "m">>, <<"2", "9", "7", "m", "m">>,
       <<[TextElt(<<>>, "middle", <<"$", "E", "$">>) EXCEPT
            !.x = <<"3", ".", "1", "4">>, !.y = <<"2", ".", "7">>,
            !.fill = <<"r", "e", "d">>],
         [TextElt(<<"1", "0", "p", "x">>, "", <<"a">>) EXCEPT
            !.x = <<"0">>, !.y = <<"0">>,
            !.kids = <<Tspan(<<"1", "2", "p", "x">>, <<"b">>)>>],
         [TextElt(<<>>, "", <<>>) EXCEPT
            !.kids = <<Tspan(<<"1", "2", "p", "x">>, <<"c">>), Tspan(<<>>, <<"d">>)>>],
         [TextElt(<<"1", "0", ".", "5", "8", "p", "x">>, "end", <<"a", "\n", "\n", "b">>) EXCEPT
            !.x = <<"1">>, !.y = <<"2">>,
            !.transform = <<"s", "c", "a", "l", "e", "(", "2", ")">>,
            !.inlineSize = <<"4", "0">>,
            !.fontFamily = <<"s", "e", "r", "i", "f">>,
            !.fill = <<"r", "e", "d">>, !.opacity = <<"0", ".", "5">>],
         TextElt(<<"4", "p", "x">>, "", <<"$", "a", "$", " ", "a", "n", "d", " ", "*", "*", "b", "o", "l", "d", "*", "*", " ", "t", "e", "x", "t">>)>>),
   Doc(<<"2", "e", "m">>, <<"1", "e", "m">>, <<TextElt(<<>>, "", <<" ">>)>>),
   Doc(<<"5", "0", "%">>, <<"5", "0", "m", "m">>, <<TextElt(<<"1", "2", "p", "t">>, "", <<"a">>)>>),
   Doc(<<"4", "2", "m", "m">>, <<"4", "2", "m", "m">>,
       <<TextElt(<<"1", "0", "p", "x">>, "", <<>>), PathElt, TextElt(<<"1", "0", ".", "5", "p", "x">>, "end", <<"a", "\n", "\n", "b">>)>>),
   Doc(<<"2", "1", "0", "m", "m">>, <<"2", "9", "7", "m", "m">>,
       <<TextElt(<<"1", "0", "p", "x">>, "start", <<"a">>), TextElt(<<"1", "e", "m">>, "", <<"b">>)>>),
   Doc(<<"1", "p", "t">>, <<"3", "p", "t">>, <<>>)}

\* what fs.readFileSync does: the contents, an empty file, or an error code
FsOutcomes ==
  {[code |-> "OK", doc |-> d] : d \in Docs}
    \cup {[code |-> c, doc |-> NoDoc] : c \in {"EMPTY", "ENOENT", "EACCES"}}

Formats == {"html", "docx", "latex"}

Paths == {<<"a", ".", "s", "v", "g">>, <<"b", ".", "S", "V", "G">>}

ClassLists == {<<>>, <<"c", "ignore", "keep-size">>, <<"keep-size">>, <<"c", "keep-size">>}

KeyvalLists == {<<>>,
                <<<<"width", <<"5", "0", "%">>>>>>,
                <<<<"scale-factor", <<"2">>>>, <<"key", <<"v", "a", "l">>>>>>,
                <<<<"height", <<"1", ".", "5", "i", "n">>>>, <<"scale-factor", <<"2">>>>, <<"lang", <<"e", "n">>>>>>}

Img(id, classes, keyvals, fname, title) ==
  [id |-> id, classes |-> classes, keyvals |-> keyvals, caption |-> <<>>,
   fname |-> fname, title |-> title]

Titles == {<<>>, <<"f", "i", "g", ":", "c", "a", "p">>}

Images ==
  {Img(<<"i", "d">>, c, k, <<"a", ".", "s", "v", "g">>, t) : c \in ClassLists, k \in KeyvalLists, t \in Titles}
    \cup {Img(<<>>, c, <<>>, f, t) :
            c \in {<<>>, <<"ignore">>}, f \in {<<"b", ".", "S", "V", "G">>, <<"a", ".", "p", "n", "g">>}, t \in Titles}

\* an AST element {t, c}: c is the Image's contents (img) of an Image and the
\* list of children (kids) of a Para
NoImg == Img(<<>>, <<>>, <<>>, <<>>, <<>>)

Image(c) == [t |-> "Image", c |-> [img |-> c, kids |-> <<>>]]

Para(kids) == [t |-> "Para", c |-> [img |-> NoImg, kids |-> kids]]

Str == [t |-> "Str", c |-> [img |-> NoImg, kids |-> <<>>]]

Elements ==
  {Image(c) : c \in Images}
    \cup {Para(<<Image(c)>>) : c \in Images}
    \cup {Para(<<Image(c), Str>>) :
            c \in {i \in Images : i.fname = <<"b", ".", "S", "V", "G">>}}
    \cup {Para(<<>>), Para(<<Str>>), Str}

(***************************************************************************)
(* lib/utils.js: the diagnostics and the file loader.                      *)
(***************************************************************************)
Undef == [t |-> "undefined", c |-> <<>>]
Thrown == [t |-> "throw", c |-> <<>>]
NoRet == [t |-> "none", c |-> <<>>]

compatibleOutputFormat(format) == format \in formats

printedAfterFormat(format) ==
  IF format \in formats THEN printedOutputFormatErrorMsg ELSE TRUE

stderrAfterFormat(format) ==
  IF format \in formats \/ printedOutputFormatErrorMsg THEN stderr
  ELSE Append(stderr, [msg |-> "format", arg |-> <<format>>])

loadSVG(outcome) ==
  CASE outcome.code = "OK" -> [t |-> "string", c |-> outcome.doc]
    [] outcome.code = "EMPTY" -> [t |-> "emptyString", c |-> NoDoc]
    [] outcome.code = "ENOENT" -> [t |-> "null", c |-> NoDoc]
    [] OTHER -> [t |-> "throw", c |-> NoDoc]

\* stderrAfterLoad without the look-up in filesNotFound
stderrAfterLoadUnchecked(path, outcome) ==
  IF outcome.code = "ENOENT"
  THEN Append(stderr, [msg |-> "file", arg |-> path])
  ELSE stderr

stderrAfterLoad(path, outcome) ==
  IF outcome.code = "ENOENT" /\ path \notin filesNotFound
  THEN Append(stderr, [msg |-> "file", arg |-> path])
  ELSE stderr

filesNotFoundAfterLoad(path, outcome) ==
  IF outcome.code = "ENOENT" THEN filesNotFound \cup {path} ELSE filesNotFound

\* history: the calls that passed a format other than html, and the loads
\* that found a path missing, counted as 0, 1, or 2 for "more than once"
AtMostTwo(n) == IF n >= 2 THEN 2 ELSE n

countFormat(format) ==
  IF format = "html" THEN unsupportedCalls ELSE AtMostTwo(unsupportedCalls + 1)

countLoad(path, outcome) ==
  IF outcome.code = "ENOENT"
  THEN [missingLoads EXCEPT ![path] = AtMostTwo(@ + 1)]
  ELSE missingLoads

(***************************************************************************)
(* lib/filter.js, lines 19-61: from the call to the loaded tree.           *)
(***************************************************************************)
NoLoc ==
  [id |-> <<>>, classes |-> <<>>, keyvals |-> <<>>, caption |-> <<>>,
   fname |-> <<>>, title |-> <<>>, figure |-> FALSE]

imageValueOf(elt) ==
  IF isFigure(elt.t, elt.c) THEN elt.c.kids[1].c.img ELSE elt.c.img

\* where lines 20-57 leave the function, or "load" when they reach loadSVG
enterStage(elt, format) ==
  IF ~compatibleOutputFormat(format) THEN "format"
  ELSE IF ~isImage(elt.t) /\ isFigureThrows(elt.t, elt.c) THEN "throw"
  ELSE IF ~(isImage(elt.t) \/ isFigure(elt.t, elt.c)) THEN "invalid"
  ELSE IF ~isSVG(imageValueOf(elt).fname) THEN "notSVG"
  ELSE IF includes(imageValueOf(elt).classes, "ignore") THEN "ignore"
  ELSE "load"

\* ignoreReturn handing the image back with its classes as they were
ignoreReturnKeepsClass(elt) ==
  LET v == imageValueOf(elt)
  IN  IF isFigure(elt.t, elt.c) THEN Para(<<Image(v)>>) ELSE Image(v)

ignoreReturn(elt) ==
  LET v == imageValueOf(elt)
      image == Image([v EXCEPT !.classes = spliceOut(v.classes, "ignore")])
  IN  IF isFigure(elt.t, elt.c) THEN Para(<<image>>) ELSE image

NoFile == [code |-> "ENOENT", doc |-> NoDoc]

FilterEnter(elt, format, outcome) ==
  LET stage == enterStage(elt, format)
      load == stage = "load"
      path == imageValueOf(elt).fname
      svgString == loadSVG(outcome)
      ok == load /\ svgString.t = "string"
  IN  /\ pc = "idle"
      /\ ncalls < MaxCalls
      /\ ~load => outcome = NoFile
      /\ ncalls' = ncalls + 1
      /\ args' = [api |-> "filter", elt |-> elt, format |-> format,
                  load |-> IF load THEN outcome.code ELSE "none"]
      /\ printedOutputFormatErrorMsg' = printedAfterFormat(format)
      /\ stderr' = IF load THEN stderrAfterLoad(path, outcome)
                   ELSE stderrAfterFormat(format)
      /\ filesNotFound' = IF load THEN filesNotFoundAfterLoad(path, outcome)
                          ELSE filesNotFound
      /\ unsupportedCalls' = countFormat(format)
      /\ missingLoads' = IF load THEN countLoad(path, outcome) ELSE missingLoads
      /\ loc' = IF load
                THEN [id |-> imageValueOf(elt).id,
                      classes |-> imageValueOf(elt).classes,
                      keyvals |-> imageValueOf(elt).keyvals,
                      caption |-> imageValueOf(elt).caption,
                      fname |-> imageValueOf(elt).fname,
                      title |-> imageValueOf(elt).title,
                      figure |-> isFigure(elt.t, elt.c)]
                ELSE NoLoc
      /\ svgDOM' = IF ok THEN svgString.c ELSE NoDoc
      /\ passes' = <<>>
      /\ pc' = IF ok THEN "resize" ELSE "done"
      /\ ret' = CASE stage = "throw" -> Thrown
                  [] stage = "ignore" -> ignoreReturn(elt)
                  [] load /\ svgString.t = "throw" -> Thrown
                  [] ok -> NoRet
                  [] OTHER -> Undef
      /\ UNCHANGED <<before, dimObj>>

(***************************************************************************)
(* lib/filter.js, lines 63-89: resize SVG?                                 *)
(***************************************************************************)
isDimKeyval(kv) == kv[1] = "width" \/ kv[1] = "height"
notDimKeyval(kv) == ~isDimKeyval(kv)
notScaleFactor(kv) == kv[1] # "scale-factor"

\* the value the last pair with this key gives, undefined without such a pair
lastVal(keyvals, key) ==
  LET idx == {i \in 1..Len(keyvals) : keyvals[i][1] = key}
  IN  IF idx = {} THEN Undefined
      ELSE keyvals[CHOOSE i \in idx : \A j \in idx : j <= i][2]

\* the locals and the tree after lines 63-89, and whether resize was called
filterResize(l, dom) ==
  LET dimKeyvals == SelectSeq(l.keyvals, isDimKeyval)
      byDims == [scaleFactor |-> Undefined,
                 width |-> lastVal(dimKeyvals, "width"),
                 height |-> lastVal(dimKeyvals, "height")]
      byScale == [scaleFactor |-> lastVal(l.keyvals, "scale-factor"),
                  width |-> Undefined, height |-> Undefined]
  IN  IF dimKeyvals # <<>>
      THEN [loc |-> [l EXCEPT !.keyvals = SelectSeq(l.keyvals, notDimKeyval)],
            dom |-> resize(dom, byDims), ran |-> TRUE, dimObj |-> byDims]
      ELSE IF ~includes(l.classes, "keep-size")
      THEN [loc |-> [l EXCEPT !.keyvals = SelectSeq(l.keyvals, notScaleFactor)],
            dom |-> resize(dom, byScale), ran |-> TRUE, dimObj |-> byScale]
      ELSE [loc |-> [l EXCEPT !.classes = spliceOut(l.classes, "keep-size")],
            dom |-> dom, ran |-> FALSE, dimObj |-> NoDimObj]

FilterResize ==
  /\ pc = "resize"
  /\ \E r \in {filterResize(loc, svgDOM)} :
       /\ loc' = r.loc
       /\ svgDOM' = r.dom
       /\ passes' = IF r.ran THEN Append(passes, "resize") ELSE passes
       /\ before' = IF r.ran THEN svgDOM ELSE before
       /\ dimObj' = IF r.ran THEN r.dimObj ELSE dimObj
  /\ pc' = "svgo"
  /\ UNCHANGED <<memo, args, ret, ncalls, unsupportedCalls, missingLoads>>

(***************************************************************************)
(* lib/filter.js, lines 91-100, and lib/optimize.js main: the passes.      *)
(* The pass that runs after the one at position p.                         *)
(***************************************************************************)
\* nextPass with the two folding passes exchanged
nextPassFoldsSwapped(p) ==
  CASE p = "svgo" -> "optimizeTspan"
    [] p = "optimizeTspan" -> "removeTranslations"
    [] p = "removeTranslations" -> "text2foreignObject"
    [] p = "text2foreignObject" -> "svg2to11"
    [] p = "svg2to11" -> "return"

\* nextPass with the conversion to SVG 1.1 ahead of the text conversion
nextPassRewriteFirst(p) ==
  CASE p = "svgo" -> "removeTranslations"
    [] p = "removeTranslations" -> "optimizeTspan"
    [] p = "optimizeTspan" -> "svg2to11"
    [] p = "svg2to11" -> "text2foreignObject"
    [] p = "text2foreignObject" -> "return"

nextPass(p) ==
  CASE p = "svgo" -> "removeTranslations"
    [] p = "removeTranslations" -> "optimizeTspan"
    [] p = "optimizeTspan" -> "text2foreignObject"
    [] p = "text2foreignObject" -> "svg2to11"
    [] p = "svg2to11" -> "return"

\* a pass that leaves the attributes and text elements of this tree alone
Pass(p) ==
  /\ pc = p
  /\ passes' = Append(passes, p)
  /\ pc' = nextPass(p)
  /\ UNCHANGED <<memo, args, loc, svgDOM, ret, ncalls, unsupportedCalls,
                 missingLoads, before, dimObj>>

\* optimize.js main, lines 141-146: serialize, SVGO, parse back
Svgo == Pass("svgo")

\* optimize.js main, line 149
RemoveTranslations == Pass("removeTranslations")

\* optimize.js main, line 150
OptimizeTspan == Pass("optimizeTspan")

\* filter.js line 97
Text2ForeignObject ==
  /\ pc = "text2foreignObject"
  /\ passes' = Append(passes, "text2foreignObject")
  /\ \E r \in {text2foreignObject(svgDOM.elts)} :
       /\ svgDOM' = [svgDOM EXCEPT !.elts = r.elts]
       /\ pc' = IF r.threw THEN "done" ELSE nextPass("text2foreignObject")
       /\ ret' = IF r.threw THEN Thrown ELSE ret
  /\ UNCHANGED <<memo, args, loc, ncalls, unsupportedCalls, missingLoads,
                 before, dimObj>>

\* filter.js line 100
Svg2to11 == Pass("svg2to11")

(***************************************************************************)
(* lib/filter.js, lines 102-131: the replacement element.                  *)
(***************************************************************************)
\* names of lib/html5attrs.js (a selection)
html5attrs == {"style", "title", "lang"}

toHTML5keyvals(keyvals) ==
  [i \in 1..Len(keyvals) |->
     <<IF keyvals[i][1] \in html5attrs THEN <<keyvals[i][1]>>
       ELSE <<"data-", keyvals[i][1]>>,
       keyvals[i][2]>>]

\* classes.join(' ')
RECURSIVE join(_)
join(classes) ==
  IF classes = <<>> THEN <<>>
  ELSE IF Len(classes) = 1 THEN <<classes[1]>>
  ELSE <<classes[1], " ">> \o join(Tail(classes))

filterReturn(l, dom) ==
  IF l.figure
  THEN [t |-> "RawBlock",
        c |-> [figure |-> TRUE, id |-> l.id, class |-> join(l.classes),
               kvStr |-> toHTML5keyvals(l.keyvals), svg |-> dom,
               figcaption |-> l.caption]]
  ELSE [t |-> "RawInline",
        c |-> [figure |-> FALSE, id |-> <<>>, class |-> <<>>, kvStr |-> <<>>,
               svg |-> [dom EXCEPT
                          !.id = IF Len(l.id) # 0 THEN l.id ELSE @,
                          !.className = join(l.classes),
                          !.attrs = @ \o toHTML5keyvals(l.keyvals)],
               figcaption |-> <<>>]]

FilterReturn ==
  /\ pc = "return"
  /\ \E r \in {filterReturn(loc, svgDOM)} : ret' = r /\ svgDOM' = r.c.svg
  /\ pc' = "done"
  /\ UNCHANGED <<memo, args, loc, passes, ncalls, unsupportedCalls, missingLoads,
                 before, dimObj>>

(***************************************************************************)
(* The caller: pandoc-filter's walk takes the returned value and calls     *)
(* filter for the next element; the tests call the helpers themselves.     *)
(***************************************************************************)
NoArgs == [api |-> "none", elt |-> Str, format |-> "html", load |-> "none"]

Walk ==
  /\ pc = "done"
  /\ pc' = "idle"
  /\ args' = NoArgs
  /\ loc' = NoLoc
  /\ svgDOM' = NoDoc
  /\ passes' = <<>>
  /\ ret' = NoRet
  /\ before' = NoDoc
  /\ dimObj' = NoDimObj
  /\ UNCHANGED <<memo, ncalls, unsupportedCalls, missingLoads>>

CallCompatibleOutputFormat(format) ==
  /\ pc = "idle"
  /\ ncalls < MaxCalls
  /\ ncalls' = ncalls + 1
  /\ args' = [api |-> "compatibleOutputFormat", elt |-> Str,
              format |-> format, load |-> "none"]
  /\ printedOutputFormatErrorMsg' = printedAfterFormat(format)
  /\ stderr' = stderrAfterFormat(format)
  /\ unsupportedCalls' = countFormat(format)
  /\ ret' = [t |-> IF compatibleOutputFormat(format) THEN "true" ELSE "false",
             c |-> <<>>]
  /\ pc' = "done"
  /\ UNCHANGED <<filesNotFound, loc, svgDOM, passes, missingLoads, before, dimObj>>

CallLoadSVG(path, outcome) ==
  /\ pc = "idle"
  /\ ncalls < MaxCalls
  /\ ncalls' = ncalls + 1
  /\ args' = [api |-> "loadSVG", elt |-> Image(Img(<<>>, <<>>, <<>>, path, <<>>)),
              format |-> "html", load |-> outcome.code]
  /\ stderr' = stderrAfterLoad(path, outcome)
  /\ filesNotFound' = filesNotFoundAfterLoad(path, outcome)
  /\ missingLoads' = countLoad(path, outcome)
  /\ ret' = [t |-> loadSVG(outcome).t, c |-> <<>>]
  /\ pc' = "done"
  /\ UNCHANGED <<printedOutputFormatErrorMsg, loc, svgDOM, passes,
                 unsupportedCalls, before, dimObj>>

Init ==
  /\ printedOutputFormatErrorMsg = FALSE
  /\ filesNotFound = {}
  /\ stderr = <<>>
  /\ pc = "idle"
  /\ args = NoArgs
  /\ loc = NoLoc
  /\ svgDOM = NoDoc
  /\ passes = <<>>
  /\ ret = NoRet
  /\ ncalls = 0
  /\ unsupportedCalls = 0
  /\ missingLoads = [f \in Paths |-> 0]
  /\ before = NoDoc
  /\ dimObj = NoDimObj

\* the inputs are drawn only where a call can start
Idle == pc = "idle" /\ ncalls < MaxCalls

Next ==
  \/ Idle /\ \E elt \in Elements, format \in Formats, outcome \in FsOutcomes :
               FilterEnter(elt, format, outcome)
  \/ FilterResize
  \/ Svgo
  \/ RemoveTranslations
  \/ OptimizeTspan
  \/ Text2ForeignObject
  \/ Svg2to11
  \/ FilterReturn
  \/ Walk
  \/ Idle /\ \E format \in Formats : CallCompatibleOutputFormat(format)
  \/ Idle /\ \E path \in Paths, outcome \in FsOutcomes :
               CallLoadSVG(path, outcome)

Spec == Init /\ [][Next]_vars

(***************************************************************************)
(* resize called on its own, as the tests do: one call on a tree whose     *)
(* root dimensions and options are drawn from the lists below.             *)
(***************************************************************************)
SrcPairs ==
  << <<<<"2", "1", "0", "m", "m">>, <<"2", "9", "7", "m", "m">>>>, <<<<"2", "e", "m">>, <<"1", "e", "m">>>>, <<<<"5", "0", "%">>, <<"5", "0", "m", "m">>>>,
     <<Null, <<"1", "e", "m">>>>, <<<<"1", "p", "t">>, <<"3", "p", "t">>>>, <<<<"2", "e", "m">>, <<"5", "0", "m", "m">>>>,
     <<<<"2", "4", "p", "x">>, <<"9", "6">>>>, <<<<"2", ".", "5", "c", "m">>, <<"1", "i", "n">>>>, <<<<"1", "2", "Q">>, <<"6", "p", "c">>>>,
     <<<<"1", ".", "2", ".", "3", "m", "m">>, <<"5", "m", "m">>>>, <<<<"5", "m", "m">>, <<"0", "m", "m">>>>, <<<<"0", "m", "m">>, <<"5", "m", "m">>>>,
     <<<<"5", "t", "o", "S", "t", "r", "i", "n", "g">>, <<"5", "m", "m">>>>, <<<<"2", "1", "0", "m", "m">>, Null>>, <<<<"5", "0", "m", "m">>, <<"2", ".", "5", "v", "h">>>>,
     <<<<"a", "b", "c">>, <<"5", "m", "m">>>>, <<<<"4", "9", ".", "6", "1", "2", "5", "e", "m">>, <<"7", "0", ".", "1", "6", "6", "2", "5", "e", "m">>>>, <<<<"1", "0", "p", "t">>, <<".", "5", "i", "n">>>>,
     <<<<"3", "i", "n">>, <<"4", ".", "i", "n">>>>, <<<<"7", "m", "m">>, <<"9", "d", "u", "c", "k", "s">>>> >>

NumSrcPairs == 19

ResizeDocs ==
  {Doc(SrcPairs[i][1], SrcPairs[i][2], <<TextElt(<<>>, "", <<"a">>)>>) :
     i \in 1..NumSrcPairs}

DimObjs ==
  [scaleFactor : {Undefined, <<"2">>, <<"0", ".", "5">>, <<"a", "b", "c">>},
   width : {Undefined, <<"1", ".", "5", "i", "n">>, <<"1", "i", "n", "c", "h">>, <<"5", "0", "d", "u", "c", "k", "s">>, <<"5", "0", "%">>, <<"1", ".", "2", ".", "3", "i", "n">>},
   height : {Undefined, <<"1", ".", "5", "i", "n">>, <<"2", "i", "n", "c", "h">>, <<"1", "0", "0">>}]

CallResize(d) ==
  /\ pc = "idle"
  /\ ncalls = 0
  /\ ncalls' = 1
  /\ args' = [api |-> "resize", elt |-> Str, format |-> "html", load |-> "none"]
  /\ before' = svgDOM
  /\ dimObj' = d
  /\ svgDOM' = resize(svgDOM, d)
  /\ ret' = Undef
  /\ UNCHANGED <<memo, pc, loc, passes, unsupportedCalls, missingLoads>>

InitResize ==
  /\ printedOutputFormatErrorMsg = FALSE
  /\ filesNotFound = {}
  /\ stderr = <<>>
  /\ pc = "idle"
  /\ args = NoArgs
  /\ loc = NoLoc
  /\ svgDOM \in ResizeDocs
  /\ passes = <<>>
  /\ ret = NoRet
  /\ ncalls = 0
  /\ unsupportedCalls = 0
  /\ missingLoads = [f \in Paths |-> 0]
  /\ before = NoDoc
  /\ dimObj = NoDimObj

\* the options of a second call on the tree the first call left
AgainDimObjs ==
  [scaleFactor : {Undefined, <<"1">>, <<"2">>},
   width : {Undefined},
   height : {Undefined}]

CallResizeAgain(d) ==
  /\ pc = "idle"
  /\ ncalls = 1
  /\ ncalls' = 2
  /\ before' = svgDOM
  /\ dimObj' = d
  /\ svgDOM' = resize(svgDOM, d)
  /\ ret' = Undef
  /\ UNCHANGED <<memo, pc, args, loc, passes, unsupportedCalls, missingLoads>>

NextResize ==
  \/ \E d \in DimObjs : CallResize(d)
  \/ \E d \in AgainDimObjs : CallResizeAgain(d)

ResizeSpec == InitResize /\ [][NextResize]_vars

(***************************************************************************)
(* Signed numbers: the coordinates and the translations of lib/optimize.js *)
(* may be negative.  A signed number is a sign and a magnitude.            *)
(***************************************************************************)
Signed(neg, abs) == [neg |-> neg, abs |-> abs]

\* Number(string) for strings that may start with a minus sign
SignedNumber(s) ==
  IF s # <<>> /\ s[1] = "-"
  THEN (IF Len(s) = 1 THEN Signed(FALSE, NaN) ELSE Signed(TRUE, Number(Tail(s))))
  ELSE Signed(FALSE, Number(s))

\* a + b
SignedAdd(a, b) ==
  IF a.abs.k # "fin" \/ b.abs.k # "fin" THEN Signed(FALSE, NaN)
  ELSE LET l == BMul(a.abs.n, b.abs.m)
           r == BMul(b.abs.n, a.abs.m)
           m == BMul(a.abs.m, b.abs.m)
       IN  IF a.neg = b.neg THEN Signed(a.neg, Fin(BAdd(l, r), m))
           ELSE IF BCmp(l, r) >= 0 THEN Signed(a.neg, Fin(BSub(l, r), m))
           ELSE Signed(b.neg, Fin(BSub(r, l), m))

\* utils.round(number).toString()
roundToString(a) ==
  IF a.abs.k = "fin" /\ a.neg /\ ~IsZero(round(a.abs))
  THEN <<"-">> \o NumberToString(round(a.abs))
  ELSE NumberToString(round(a.abs))

(***************************************************************************)
(* lib/optimize.js.  A node of the tree is an element (its tag, its x, y   *)
(* and transform attributes, the declarations of its style attribute, its  *)
(* other attributes and its child nodes) or a text node (its data).  A     *)
(* piece of markup is the sequence of its tokens.                          *)
(***************************************************************************)
Elt(tag, x, y, transform, style, attrs, kids) ==
  [tag |-> tag, x |-> x, y |-> y, transform |-> transform, style |-> style,
   attrs |-> attrs, kids |-> kids, data |-> <<>>]

TextNode(data) ==
  [tag |-> "#text", x |-> Null, y |-> Null, transform |-> Null, style |-> <<>>,
   attrs |-> <<>>, kids |-> <<>>, data |-> data]

isElement(node) == node.tag # "#text"

\* elt.children
children(elt) == SelectSeq(elt.kids, isElement)

\* the characters of \s that the trees use
Blanks == {" ", "\t", "\n"}

\* the last index of the longest run of characters of a class that starts at
\* index i (i - 1 when the run is empty)
RunEnd(s, i, class) ==
  CHOOSE j \in (i - 1)..Len(s) :
    /\ \A h \in i..j : s[h] \in class
    /\ (j = Len(s) \/ s[j + 1] \notin class)

\* the first index of the longest run of characters of a class that ends at
\* index i (i + 1 when the run is empty)
RunStart(s, i, class) ==
  CHOOSE j \in 1..(i + 1) :
    /\ \A h \in j..i : s[h] \in class
    /\ (j = 1 \/ s[j - 1] \notin class)

NoTranslate == [match |-> FALSE, x |-> <<>>, y |-> <<>>, from |-> 0, to |-> 0]

\* the leftmost match of \s*translate\((?<x>A*)S+(?<y>A*)\)\s* in s, where A
\* are the characters [-\d\.] and S the characters of the set sep
matchTranslate(s, sep) ==
  LET translateOpen == <<"t", "r", "a", "n", "s", "l", "a", "t", "e", "(">>
      argChars == {"-", "."} \cup {DigitChars[i] : i \in 1..10}
      xEnd(t) == RunEnd(s, t + Len(translateOpen), argChars)
      sepEnd(t) == RunEnd(s, xEnd(t) + 1, sep)
      yEnd(t) == RunEnd(s, sepEnd(t) + 1, argChars)
      terms == {t \in 1..(Len(s) - Len(translateOpen) + 1) :
                  /\ SubSeq(s, t, t + Len(translateOpen) - 1) = translateOpen
                  /\ sepEnd(t) > xEnd(t)
                  /\ yEnd(t) < Len(s)
                  /\ s[yEnd(t) + 1] = ")"}
  IN  IF terms = {} THEN NoTranslate
      ELSE LET t == CHOOSE h \in terms : \A g \in terms : h <= g
           IN  [match |-> TRUE,
                x |-> SubSeq(s, t + Len(translateOpen), xEnd(t)),
                y |-> SubSeq(s, sepEnd(t) + 1, yEnd(t)),
                from |-> RunStart(s, t - 1, Blanks),
                to |-> RunEnd(s, yEnd(t) + 2, Blanks)]

\* translateRegex.exec(transform), line 56
translateRegex(transform) == matchTranslate(transform, Blanks)

\* transform.replace(translateRegex, ''), line 92
withoutTranslate(transform) ==
  LET match == translateRegex(transform)
  IN  SubSeq(transform, 1, match.from - 1)
        \o SubSeq(transform, match.to + 1, Len(transform))

hasXY(elt) == elt.x # Null /\ elt.y # Null

\* allChildrenHaveXY that looks at the first child only
allChildrenHaveXYFirstOnly(kids) == kids = <<>> \/ hasXY(kids[1])

allChildrenHaveXY(kids) == \A i \in 1..Len(kids) : hasXY(kids[i])

applyTranslation(elt, deltaX, deltaY) ==
  [elt EXCEPT !.x = roundToString(SignedAdd(SignedNumber(elt.x), deltaX)),
              !.y = roundToString(SignedAdd(SignedNumber(elt.y), deltaY))]

\* the body of the forEach, lines 72-98, for one element
foldTranslation(elt) ==
  LET transform == elt.transform
      match == IF transform = Null THEN NoTranslate ELSE translateRegex(transform)
  IN  IF match.match /\ hasXY(elt) /\ allChildrenHaveXY(children(elt))
      THEN LET deltaX == SignedNumber(match.x)
               deltaY == SignedNumber(match.y)
               newTransform == withoutTranslate(transform)
               moved == applyTranslation(elt, deltaX, deltaY)
           IN  [moved EXCEPT
                  !.kids = [i \in 1..Len(elt.kids) |->
                              IF isElement(elt.kids[i])
                              THEN applyTranslation(elt.kids[i], deltaX, deltaY)
                              ELSE elt.kids[i]],
                  !.transform = IF Len(newTransform) = 0 THEN Null
                                ELSE newTransform]
      ELSE elt

\* the forEach over querySelectorAll('[transform]'): the elements in document
\* order, each one after its parent
RECURSIVE removeTranslations(_)
removeTranslations(node) ==
  IF ~isElement(node) THEN node
  ELSE LET elt == foldTranslation(node)
       IN  [elt EXCEPT !.kids = [i \in 1..Len(elt.kids) |->
                                   removeTranslations(elt.kids[i])]]

\* lines 109-127: the x/y and the style pruning of one tspan; a declaration
\* <<property, value, priority>> goes when the parent's style repeats it
prune(node, parent) ==
  LET sameXY == node.x = parent.x /\ node.y = parent.y
      kept(decl) == \A i \in 1..Len(parent.style) : parent.style[i] # decl
  IN  [node EXCEPT !.x = IF sameXY THEN Null ELSE node.x,
                   !.y = IF sameXY THEN Null ELSE node.y,
                   !.style = SelectSeq(node.style, kept)]

\* node.hasAttributes()
hasAttributes(node) ==
  \/ node.x # Null
  \/ node.y # Null
  \/ node.transform # Null
  \/ node.style # <<>>
  \/ node.attrs # <<>>

\* the serialization of text: & < > are written as entities
RECURSIVE escape(_)
escape(data) ==
  IF data = <<>> THEN <<>>
  ELSE (CASE Head(data) = "&" -> <<"&amp;">>
          [] Head(data) = "<" -> <<"&lt;">>
          [] Head(data) = ">" -> <<"&gt;">>
          [] OTHER -> <<Head(data)>>) \o escape(Tail(data))

RECURSIVE cssText(_)
cssText(style) ==
  IF style = <<>> THEN <<>>
  ELSE <<style[1][1], ":", " ">> \o style[1][2] \o <<";">>
         \o (IF Len(style) > 1 THEN <<" ">> ELSE <<>>) \o cssText(Tail(style))

\* the attributes that are there, each as name="value"
RECURSIVE attributes(_)
attributes(attrs) ==
  IF attrs = <<>> THEN <<>>
  ELSE (IF attrs[1][2] = Null THEN <<>>
        ELSE <<" ", attrs[1][1], "=", "\"">> \o attrs[1][2] \o <<"\"">>)
         \o attributes(Tail(attrs))

\* node.innerHTML and the markup of one node
RECURSIVE innerHTML(_)
RECURSIVE outerHTML(_)
innerHTML(node) ==
  IF node.kids = <<>> THEN <<>>
  ELSE outerHTML(node.kids[1]) \o innerHTML([node EXCEPT !.kids = Tail(@)])

outerHTML(node) ==
  IF ~isElement(node) THEN escape(node.data)
  ELSE <<"<", node.tag>>
         \o attributes(<<<<"x", node.x>>, <<"y", node.y>>,
                          <<"transform", node.transform>>,
                          <<"style", IF node.style = <<>> THEN Null
                                     ELSE cssText(node.style)>>>>
                          \o node.attrs)
         \o <<">">> \o innerHTML(node) \o <<"</", node.tag, ">">>

\* the forEach over querySelectorAll('tspan'): the tspans in document order,
\* each one after its parent; node.replaceWith(node.innerHTML) inserts its
\* string argument as one text node, and the tspans inside an unwrapped one
\* are no longer in the tree when their turn comes
RECURSIVE optimizeTspan(_)
optimizeTspan(parent) ==
  LET visit(node) ==
        IF ~isElement(node) THEN node
        ELSE IF node.tag # "tspan" THEN optimizeTspan(node)
        ELSE LET pruned == prune(node, parent)
             IN  IF ~hasAttributes(pruned) THEN TextNode(innerHTML(pruned))
                 ELSE optimizeTspan(pruned)
  IN  [parent EXCEPT !.kids = [i \in 1..Len(parent.kids) |-> visit(parent.kids[i])]]

(***************************************************************************)
(* removeTranslations and optimizeTspan called on their own, as the tests  *)
(* do, on the trees below.                                                 *)
(***************************************************************************)
(***************************************************************************)
(* lib/svg2to11.js: fill and stroke of context-stroke inside markers.      *)
(***************************************************************************)
\* querySelectorAll('marker [style]').forEach: the elements below a marker
\* that have a style attribute; setProperty(prop, '#000') on those whose
\* getPropertyValue(prop) is 'context-stroke', for the properties props
RECURSIVE markerStyles(_, _, _)
markerStyles(node, inMarker, props) ==
  LET setProperty(decl) ==
        IF decl[1] \in props
             /\ decl[2] = <<"c", "o", "n", "t", "e", "x", "t", "-", "s", "t", "r", "o", "k", "e">>
        THEN <<decl[1], <<"#", "0", "0", "0">>, "">>
        ELSE decl
  IN  IF ~isElement(node) THEN node
      ELSE [node EXCEPT
              !.style = IF inMarker
                        THEN [i \in 1..Len(@) |-> setProperty(@[i])]
                        ELSE @,
              !.kids = [i \in 1..Len(@) |->
                          markerStyles(@[i], inMarker \/ node.tag = "marker",
                                       props)]]

\* svg2to11 replacing the fill only
svg2to11FillOnly(dom) == markerStyles(dom, FALSE, {"fill"})

svg2to11(dom) == markerStyles(dom, FALSE, {"fill", "stroke"})

OptimizeTrees ==
  {Elt("svg", Null, Null, Null, <<>>, <<>>,
       <<Elt("text", <<"1">>, <<"2">>, Null, <<<<"fill", <<"r", "e", "d">>, "">>>>, <<>>, <<Elt("tspan", <<"1", ".", "0">>, <<"2">>, Null, <<<<"fill", <<"r", "e", "d">>, "important">>>>, <<>>, <<TextNode(<<"a">>)>>)>>)>>),
   Elt("svg", Null, Null, Null, <<>>, <<>>,
       <<Elt("text", <<"1">>, <<"2">>, <<"t", "r", "a", "n", "s", "l", "a", "t", "e", "(", "3", " ", "4", ")">>, <<>>, <<>>, <<Elt("tspan", <<"1">>, <<"2">>, Null, <<>>, <<>>, <<TextNode(<<"a">>), Elt("tspan", <<"5">>, <<"6">>, Null, <<>>, <<>>, <<TextNode(<<"b">>)>>)>>)>>)>>),
   Elt("svg", Null, Null, Null, <<>>, <<>>,
       <<Elt("defs", Null, Null, Null, <<>>, <<>>, <<Elt("marker", Null, Null, Null, <<>>, <<>>, <<Elt("path", Null, Null, Null, <<<<"fill", <<"c", "o", "n", "t", "e", "x", "t", "-", "s", "t", "r", "o", "k", "e">>, "">>, <<"stroke", <<"c", "o", "n", "t", "e", "x", "t", "-", "s", "t", "r", "o", "k", "e">>, "">>>>, <<>>, <<>>)>>)>>)>>),
   Elt("svg", Null, Null, Null, <<>>, <<>>,
       <<Elt("marker", Null, Null, Null, <<<<"fill", <<"c", "o", "n", "t", "e", "x", "t", "-", "s", "t", "r", "o", "k", "e">>, "">>>>, <<>>, <<Elt("g", Null, Null, Null, <<>>, <<>>, <<Elt("path", Null, Null, Null, <<<<"fill", <<"c", "o", "n", "t", "e", "x", "t", "-", "s", "t", "r", "o", "k", "e">>, "important">>, <<"stroke", <<"r", "e", "d">>, "">>, <<"color", <<"c", "o", "n", "t", "e", "x", "t", "-", "s", "t", "r", "o", "k", "e">>, "">>>>, <<>>, <<>>)>>)>>),
         Elt("path", Null, Null, Null, <<<<"stroke", <<"c", "o", "n", "t", "e", "x", "t", "-", "s", "t", "r", "o", "k", "e">>, "">>>>, <<>>, <<>>)>>),
   Elt("svg", Null, Null, Null, <<>>, <<>>,
       <<Elt("marker", Null, Null, Null, <<>>, <<>>, <<Elt("path", Null, Null, Null, <<>>, <<<<"fill", <<"c", "o", "n", "t", "e", "x", "t", "-", "s", "t", "r", "o", "k", "e">>>>>>, <<>>), Elt("path", Null, Null, Null, <<<<"fill", <<"#", "f", "f", "f">>, "">>, <<"stroke", <<"c", "o", "n", "t", "e", "x", "t", "-", "s", "t", "r", "o", "k", "e">>, "">>>>, <<>>, <<>>), Elt("marker", Null, Null, Null, <<<<"stroke", <<"c", "o", "n", "t", "e", "x", "t", "-", "s", "t", "r", "o", "k", "e">>, "">>>>, <<>>, <<>>)>>)>>),
   Elt("svg", Null, Null, Null, <<>>, <<>>,
       <<Elt("text", <<"1">>, <<"2">>, <<"t", "r", "a", "n", "s", "l", "a", "t", "e", "(", "-", "1", " ", "-", "2", ")", " ", "s", "c", "a", "l", "e", "(", "1", " ", "0", ".", "5", ")">>, <<>>, <<>>, <<TextNode(<<"T", ".">>), Elt("tspan", <<"1">>, <<"2">>, Null, <<>>, <<>>, <<TextNode(<<"t">>)>>)>>)>>),
   Elt("svg", Null, Null, Null, <<>>, <<>>,
       <<Elt("text", <<"1">>, <<"2">>, <<"t", "r", "a", "n", "s", "l", "a", "t", "e", "(", "-", "1", " ", "-", "2", ")">>, <<>>, <<>>, <<TextNode(<<"T", ".">>), Elt("tspan", <<"1">>, <<"2">>, Null, <<>>, <<>>, <<TextNode(<<"t">>)>>)>>)>>),
   Elt("svg", Null, Null, Null, <<>>, <<>>,
       <<Elt("path", Null, Null, <<"t", "r", "a", "n", "s", "l", "a", "t", "e", "(", "-", "1", " ", "-", "2", ")">>, <<>>, <<<<"d", <<"M">>>>>>, <<>>)>>),
   Elt("svg", Null, Null, Null, <<>>, <<>>,
       <<Elt("text", <<"1">>, <<"2">>, <<"t", "r", "a", "n", "s", "l", "a", "t", "e", "(", "-", "1", " ", "-", "2", ")">>, <<>>, <<>>, <<TextNode(<<"T", ".">>), Elt("tspan", Null, Null, Null, <<>>, <<>>, <<TextNode(<<"t">>)>>)>>)>>),
   Elt("svg", Null, Null, Null, <<>>, <<>>,
       <<Elt("text", <<"1">>, <<"2">>, <<"t", "r", "a", "n", "s", "l", "a", "t", "e", "(", "-", "1", ",", "-", "2", ")">>, <<>>, <<>>, <<>>)>>),
   Elt("svg", Null, Null, Null, <<>>, <<>>,
       <<Elt("text", <<"1">>, <<"2">>, <<"t", "r", "a", "n", "s", "l", "a", "t", "e", "(", "1", " ", "2", ")", " ", "t", "r", "a", "n", "s", "l", "a", "t", "e", "(", "3", " ", "4", ")">>, <<>>, <<>>, <<>>)>>),
   Elt("svg", Null, Null, Null, <<>>, <<>>,
       <<Elt("text", <<"0", ".", "1">>, <<"0", ".", "2">>, <<"s", "c", "a", "l", "e", "(", "2", ")", " ", "t", "r", "a", "n", "s", "l", "a", "t", "e", "(", "0", ".", "2", " ", "\t", "0", ".", "1", ")", " ", "r", "o", "t", "a", "t", "e", "(", "3", ")">>, <<>>, <<>>, <<>>)>>),
   Elt("svg", Null, Null, Null, <<>>, <<>>,
       <<Elt("text", <<"1", "e", "m">>, <<"2">>, <<"t", "r", "a", "n", "s", "l", "a", "t", "e", "(", "1", " ", "2", ")">>, <<>>, <<>>, <<>>)>>),
   Elt("svg", Null, Null, Null, <<>>, <<>>,
       <<Elt("rect", <<"-", "3">>, <<"1", "0">>, <<"r", "o", "t", "a", "t", "e", "(", "3", ")", "t", "r", "a", "n", "s", "l", "a", "t", "e", "(", "2", ".", "5", " ", "-", "1", "2", ")">>, <<>>, <<>>, <<>>)>>),
   Elt("svg", Null, Null, Null, <<>>, <<>>,
       <<Elt("text", <<"1">>, <<"2">>, <<"t", "r", "a", "n", "s", "l", "a", "t", "e", "(", "1", " ", "1", ")">>, <<>>, <<>>, <<Elt("tspan", <<"5">>, <<"5">>, <<"t", "r", "a", "n", "s", "l", "a", "t", "e", "(", "2", " ", "2", ")", " ", "s", "c", "a", "l", "e", "(", "2", ")">>, <<>>, <<>>, <<Elt("tspan", Null, Null, Null, <<>>, <<>>, <<TextNode(<<"t">>)>>)>>)>>)>>),
   Elt("svg", Null, Null, Null, <<>>, <<>>,
       <<Elt("g", Null, Null, <<"t", "r", "a", "n", "s", "l", "a", "t", "e", "(", "1", " ", "2", ")">>, <<>>, <<>>, <<Elt("text", <<"1">>, <<"2">>, <<"t", "r", "a", "n", "s", "l", "a", "t", "e", "(", "3", " ", "4", ")">>, <<>>, <<>>, <<TextNode(<<"t">>)>>)>>)>>),
   Elt("svg", Null, Null, Null, <<>>, <<>>,
       <<Elt("text", <<"1">>, <<"2">>, <<"t", "r", "a", "n", "s", "l", "a", "t", "e", "(", "1", " ", "2", ")">>, <<>>, <<>>, <<Elt("tspan", <<"1">>, <<"2">>, Null, <<>>, <<>>, <<TextNode(<<"a">>)>>), Elt("tspan", Null, Null, Null, <<>>, <<>>, <<TextNode(<<"b">>)>>)>>)>>),
   Elt("svg", Null, Null, Null, <<>>, <<>>,
       <<Elt("text", <<"1">>, <<"2">>, Null, <<>>, <<>>, <<Elt("tspan", <<"1">>, <<"2">>, Null, <<>>, <<<<"dx", <<"1">>>>>>, <<TextNode(<<"a">>)>>)>>),
         Elt("text", <<"7">>, <<"8">>, <<"t", "r", "a", "n", "s", "l", "a", "t", "e", "(", "1", " ", "0", ")">>, <<>>, <<>>, <<Elt("tspan", <<"7">>, <<"9">>, <<"t", "r", "a", "n", "s", "l", "a", "t", "e", "(", "0", " ", "1", ")">>, <<>>, <<>>, <<TextNode(<<"b">>)>>)>>)>>),
   Elt("svg", Null, Null, Null, <<>>, <<>>,
       <<Elt("text", <<"3", ".", "1", "4", "1", "6">>, <<"2", ".", "7", "1", "8", "3">>, Null, <<>>, <<>>, <<Elt("tspan", <<"3", ".", "1", "4", "1", "6">>, <<"2", ".", "7", "1", "8", "3">>, Null, <<<<"color", <<"r", "e", "d">>, "">>>>, <<>>, <<TextNode(<<"T", ".">>)>>)>>)>>),
   Elt("svg", Null, Null, Null, <<>>, <<>>,
       <<Elt("text", <<"3", ".", "1", "4", "1", "6">>, <<"2", ".", "7", "1", "8", "3">>, Null, <<<<"font-family", <<"s", "e", "r", "i", "f">>, "">>, <<"color", <<"r", "e", "d">>, "">>, <<"font-size", <<"4", "p", "x">>, "">>>>, <<>>, <<Elt("tspan", <<"0">>, <<"2", ".", "7", "1", "8", "3">>, Null, <<<<"color", <<"r", "e", "d">>, "">>, <<"font-size", <<"1", "0", "p", "x">>, "">>>>, <<>>, <<TextNode(<<"T", ".">>)>>)>>)>>),
   Elt("svg", Null, Null, Null, <<>>, <<>>,
       <<Elt("text", <<"3", ".", "1", "4", "1", "6">>, <<"2", ".", "7", "1", "8", "3">>, Null, <<<<"font-family", <<"s", "e", "r", "i", "f">>, "">>, <<"color", <<"r", "e", "d">>, "">>, <<"font-size", <<"4", "p", "x">>, "">>>>, <<>>, <<Elt("tspan", <<"0">>, <<"2", ".", "7", "1", "8", "3">>, Null, <<<<"color", <<"r", "e", "d">>, "">>, <<"font-size", <<"4", "p", "x">>, "">>>>, <<>>, <<TextNode(<<"T", ".">>)>>)>>)>>),
   Elt("svg", Null, Null, Null, <<>>, <<>>,
       <<Elt("text", <<"3", ".", "1", "4", "1", "6">>, <<"2", ".", "7", "1", "8", "3">>, Null, <<<<"font-family", <<"s", "e", "r", "i", "f">>, "">>, <<"color", <<"r", "e", "d">>, "">>, <<"font-size", <<"4", "p", "x">>, "">>>>, <<>>, <<TextNode(<<"T", ".">>), Elt("tspan", <<"3", ".", "1", "4", "1", "6">>, <<"2", ".", "7", "1", "8", "3">>, Null, <<<<"color", <<"r", "e", "d">>, "">>, <<"font-size", <<"4", "p", "x">>, "">>>>, <<>>, <<TextNode(<<"i", "n">>)>>)>>)>>),
   Elt("svg", Null, Null, Null, <<>>, <<>>,
       <<Elt("text", <<"1">>, <<"2">>, Null, <<>>, <<>>, <<Elt("tspan", <<"1">>, <<"2">>, Null, <<>>, <<>>, <<TextNode(<<"a">>), Elt("tspan", Null, Null, Null, <<>>, <<<<"dx", <<"1">>>>>>, <<TextNode(<<"b">>)>>)>>)>>)>>),
   Elt("svg", Null, Null, Null, <<>>, <<>>,
       <<Elt("text", <<"1">>, <<"2">>, Null, <<>>, <<>>, <<Elt("tspan", <<"1">>, <<"2">>, Null, <<>>, <<>>, <<TextNode(<<"R", "&", "D">>)>>)>>)>>),
   Elt("svg", Null, Null, Null, <<>>, <<>>,
       <<Elt("text", <<"1">>, <<"2">>, Null, <<>>, <<>>, <<Elt("tspan", Null, Null, Null, <<>>, <<<<"dx", <<"1">>>>>>, <<TextNode(<<"a">>)>>)>>)>>),
   Elt("svg", Null, Null, Null, <<>>, <<>>,
       <<Elt("text", <<"1">>, <<"2">>, Null, <<>>, <<>>, <<TextNode(<<"a">>), Elt("tspan", Null, Null, Null, <<>>, <<>>, <<>>), TextNode(<<"b">>)>>)>>),
   Elt("svg", Null, Null, Null, <<>>, <<>>,
       <<Elt("text", <<"1">>, <<"2">>, Null, <<>>, <<>>, <<Elt("tspan", <<"1">>, <<"3">>, Null, <<>>, <<>>, <<Elt("tspan", <<"1">>, <<"3">>, Null, <<>>, <<>>, <<TextNode(<<"a">>)>>), TextNode(<<"b">>)>>)>>)>>),
   Elt("svg", Null, Null, Null, <<>>, <<>>,
       <<Elt("text", <<"1">>, <<"2">>, <<"t", "r", "a", "n", "s", "l", "a", "t", "e", "(", "-", "1", " ", "-", "2", ")">>, <<<<"fill", <<"r", "e", "d">>, "">>>>, <<>>, <<Elt("tspan", <<"1">>, <<"2">>, Null, <<<<"fill", <<"r", "e", "d">>, "">>>>, <<>>, <<TextNode(<<"a">>), Elt("tspan", Null, Null, Null, <<<<"fill", <<"r", "e", "d">>, "">>>>, <<>>, <<TextNode(<<"b">>)>>)>>)>>)>>)}

MaxPassCalls == 2

CallRemoveTranslations ==
  /\ pc = "idle"
  /\ ncalls < MaxPassCalls
  /\ ncalls' = ncalls + 1
  /\ args' = [api |-> "removeTranslations", elt |-> Str, format |-> "html",
              load |-> "none"]
  /\ before' = svgDOM
  /\ svgDOM' = removeTranslations(svgDOM)
  /\ ret' = Undef
  /\ UNCHANGED <<memo, pc, loc, passes, unsupportedCalls, missingLoads, dimObj>>

CallOptimizeTspan ==
  /\ pc = "idle"
  /\ ncalls < MaxPassCalls
  /\ ncalls' = ncalls + 1
  /\ args' = [api |-> "optimizeTspan", elt |-> Str, format |-> "html",
              load |-> "none"]
  /\ before' = svgDOM
  /\ svgDOM' = optimizeTspan(svgDOM)
  /\ ret' = Undef
  /\ UNCHANGED <<memo, pc, loc, passes, unsupportedCalls, missingLoads, dimObj>>

CallSvg2to11 ==
  /\ pc = "idle"
  /\ ncalls < MaxPassCalls
  /\ ncalls' = ncalls + 1
  /\ args' = [api |-> "svg2to11", elt |-> Str, format |-> "html",
              load |-> "none"]
  /\ before' = svgDOM
  /\ svgDOM' = svg2to11(svgDOM)
  /\ ret' = Undef
  /\ UNCHANGED <<memo, pc, loc, passes, unsupportedCalls, missingLoads, dimObj>>

InitOptimize ==
  /\ printedOutputFormatErrorMsg = FALSE
  /\ filesNotFound = {}
  /\ stderr = <<>>
  /\ pc = "idle"
  /\ args = NoArgs
  /\ loc = NoLoc
  /\ svgDOM \in OptimizeTrees
  /\ passes = <<>>
  /\ ret = NoRet
  /\ ncalls = 0
  /\ unsupportedCalls = 0
  /\ missingLoads = [f \in Paths |-> 0]
  /\ before = NoDoc
  /\ dimObj = NoDimObj

NextOptimize ==
  \/ CallRemoveTranslations
  \/ CallOptimizeTspan
  \/ CallSvg2to11

OptimizeSpec == InitOptimize /\ [][NextOptimize]_vars


(***************************************************************************)
(* The Resizer's claims, stated on ResizeSpec.  The vocabulary of the      *)
(* claims: a number is digits with at most one inner dot, a valid          *)
(* dimension is a number followed by a recognized unit, and the factor     *)
(* table gives the pixels of one absolute unit.                            *)
(***************************************************************************)
IsNumeral(s) ==
  LET dots == {i \in 1..Len(s) : s[i] = "."}
  IN  /\ s # <<>>
      /\ \A i \in 1..Len(s) : IsNumChar(s[i])
      /\ Cardinality(dots) <= 1
      /\ \A i \in dots : 1 < i /\ i < Len(s)

numberOf(dim) == dimRegex(dim).val
unitOf(dim) == dimRegex(dim).unit

AbsoluteUnits == {<<>>, <<"p", "x">>, <<"c", "m">>, <<"m", "m">>, <<"i", "n">>, <<"p", "t">>, <<"p", "c">>, <<"Q">>}

TargetUnits == {<<"p", "x">>, <<"c", "m">>, <<"m", "m">>, <<"i", "n">>, <<"i", "n", "c", "h">>, <<"%">>}

validDimension(dim) ==
  /\ dimRegex(dim).match
  /\ IsNumeral(numberOf(dim))
  /\ (unitOf(dim) \in AbsoluteUnits \/ unitOf(dim) \in relUnits)

absoluteDimension(dim) == validDimension(dim) /\ unitOf(dim) \in AbsoluteUnits

\* a number followed by one of px, cm, mm, in, inch, %
validTarget(dim) ==
  dimRegex(dim).match /\ IsNumeral(numberOf(dim)) /\ unitOf(dim) \in TargetUnits

\* digits and dots followed by one of px, cm, mm, in, inch, %
targetHasUnit(dim) ==
  \E u \in TargetUnits :
    /\ Len(dim) > Len(u)
    /\ SubSeq(dim, Len(dim) - Len(u) + 1, Len(dim)) = u
    /\ \A i \in 1..(Len(dim) - Len(u)) : IsNumChar(dim[i])

\* px=1, cm=37.8, mm=3.78, in=96, pt=96/72, pc=16, Q=37.8/40
factorTable(unit) ==
  CASE unit = <<>> -> Fin(<<1>>, <<1>>)
    [] unit = <<"p", "x">> -> Fin(<<1>>, <<1>>)
    [] unit = <<"c", "m">> -> Fin(<<3, 7, 8>>, <<1, 0>>)
    [] unit = <<"m", "m">> -> Fin(<<3, 7, 8>>, <<1, 0, 0>>)
    [] unit = <<"i", "n">> -> Fin(<<9, 6>>, <<1>>)
    [] unit = <<"p", "t">> -> Fin(<<9, 6>>, <<7, 2>>)
    [] unit = <<"p", "c">> -> Fin(<<1, 6>>, <<1>>)
    [] unit = <<"Q">> -> Fin(<<3, 7, 8>>, <<4, 0, 0>>)

\* the source value converted to pixels with the factor table
pixelsOf(dim) == NMul(Number(numberOf(dim)), factorTable(unitOf(dim)))

\* the scale factor of the last call, 1 when none was given
givenScaleFactor ==
  IF dimObj.scaleFactor = Undefined THEN Fin(<<1>>, <<1>>)
  ELSE Number(dimObj.scaleFactor)

written(x, unit) == NumberToString(round(x)) \o unit

resizeCalled == args.api = "resize"

noTarget == dimObj.width = Undefined /\ dimObj.height = Undefined

inchToIn(dim) == replace(dim, <<"i", "n", "c", "h">>, <<"i", "n">>)

\* only the root's width and height differ from the tree before the call
onlyRootDimsWritten ==
  svgDOM = [before EXCEPT !.width = svgDOM.width, !.height = svgDOM.height]

\* C5: if the root's width or height is absent or is not a valid dimension,
\* resize leaves the whole tree as it was, whatever the options, and returns
\* without an error.
C5_InvalidSourceUntouched ==
  (resizeCalled
     /\ (~validDimension(before.width) \/ ~validDimension(before.height)))
  => (svgDOM = before /\ ret = Undef)

\* C21: resize accepts a source dimension as valid exactly when it is a
\* number (digits, optionally a dot and digits) followed by an absolute or
\* relative unit; a root carrying any other width or height, such as
\* "1.2.3mm", ".5mm" or "5.mm", is rejected and left as it was.
C21_SourceValidity ==
  resizeCalled
  => /\ dimValid(before.width) <=> validDimension(before.width)
     /\ dimValid(before.height) <=> validDimension(before.height)
     /\ (~validDimension(before.width) \/ ~validDimension(before.height))
          => svgDOM = before

\* a finite non-negative decimal number followed by a unit
finiteWithUnit(dim) ==
  dimRegex(dim).match /\ IsNumeral(numberOf(dim)) /\ unitOf(dim) # <<>>

\* C29: every width and height resize writes is a finite non-negative number
\* followed by a unit, never NaN or Infinity, whatever source it accepted
\* and whatever target or scale factor it was given.
C29_WrittenValuesFinite ==
  resizeCalled
  => /\ svgDOM.width # before.width => finiteWithUnit(svgDOM.width)
     /\ svgDOM.height # before.height => finiteWithUnit(svgDOM.height)

\* C6 as stated: with absolute source dimensions and no target, the width is
\* round(scaleFactor * pxWidth / 16) em and the height likewise, pxWidth and
\* pxHeight being the source values times their factor.
C6_EmFromExactPixels ==
  (resizeCalled /\ noTarget
     /\ absoluteDimension(before.width) /\ absoluteDimension(before.height))
  => /\ svgDOM.width =
          written(NDiv(NMul(givenScaleFactor, pixelsOf(before.width)), Lit(16)),
                  <<"e", "m">>)
     /\ svgDOM.height =
          written(NDiv(NMul(givenScaleFactor, pixelsOf(before.height)), Lit(16)),
                  <<"e", "m">>)

\* C6 amended: with absolute source dimensions and no target, the width is
\* round(scaleFactor * round(pxWidth) / 16) em and the height likewise: the
\* pixel values are themselves rounded to 10 significant digits first.
\* Nothing else of the tree changes.
C6_EmFromRoundedPixels ==
  (resizeCalled /\ noTarget
     /\ absoluteDimension(before.width) /\ absoluteDimension(before.height))
  => /\ svgDOM.width =
          written(NDiv(NMul(givenScaleFactor, round(pixelsOf(before.width))),
                       Lit(16)), <<"e", "m">>)
     /\ svgDOM.height =
          written(NDiv(NMul(givenScaleFactor, round(pixelsOf(before.height))),
                       Lit(16)), <<"e", "m">>)
     /\ onlyRootDimsWritten

\* a 1pt x 3pt root scaled by 2 without a target has been converted to em
C6_Witness ==
  /\ resizeCalled /\ noTarget
  /\ dimObj.scaleFactor = <<"2">>
  /\ before.width = <<"1", "p", "t">>
  /\ svgDOM.width = <<"0", ".", "1", "6", "6", "6", "6", "6", "6", "6", "6", "6", "e", "m">>
  /\ svgDOM.height = <<"0", ".", "5", "e", "m">>

A4Root ==
  /\ before.width = <<"2", "1", "0", "m", "m">>
  /\ before.height = <<"2", "9", "7", "m", "m">>

\* C7 as stated: a 210mm x 297mm root resized without target and with the
\* default scale factor gets width "49.6125em" and height "70.175em".
C7_A4Height70175 ==
  (resizeCalled /\ noTarget /\ dimObj.scaleFactor = Undefined /\ A4Root)
  => /\ svgDOM.width = <<"4", "9", ".", "6", "1", "2", "5", "e", "m">>
     /\ svgDOM.height = <<"7", "0", ".", "1", "7", "5", "e", "m">>

\* C7 amended: a 210mm x 297mm root resized without target and with the
\* default scale factor gets width "49.6125em" and height "70.16625em".
C7_A4Height7016625 ==
  (resizeCalled /\ noTarget /\ dimObj.scaleFactor = Undefined /\ A4Root)
  => /\ svgDOM.width = <<"4", "9", ".", "6", "1", "2", "5", "e", "m">>
     /\ svgDOM.height = <<"7", "0", ".", "1", "6", "6", "2", "5", "e", "m">>

\* the 210mm x 297mm root has been resized with no option given
C7_Witness ==
  /\ resizeCalled /\ noTarget /\ dimObj.scaleFactor = Undefined /\ A4Root
  /\ svgDOM.width # before.width

\* C8: if either source unit is relative, resize ignores the targets,
\* multiplies each source number by the scale factor (1 by default), keeps
\* each axis's unit and writes both back; 2em x 1em scaled by 2 becomes
\* 4em x 2em.
C8_RelativeScaledOnly ==
  (resizeCalled
     /\ validDimension(before.width) /\ validDimension(before.height)
     /\ (unitOf(before.width) \in relUnits \/ unitOf(before.height) \in relUnits))
  => /\ svgDOM.width =
          written(NMul(givenScaleFactor, Number(numberOf(before.width))),
                  unitOf(before.width))
     /\ svgDOM.height =
          written(NMul(givenScaleFactor, Number(numberOf(before.height))),
                  unitOf(before.height))
     /\ onlyRootDimsWritten
     /\ (/\ before.width = <<"2", "e", "m">>
         /\ before.height = <<"1", "e", "m">>
         /\ dimObj.scaleFactor = <<"2">>)
        => (svgDOM.width = <<"4", "e", "m">> /\ svgDOM.height = <<"2", "e", "m">>)

\* a root with one relative and one absolute unit has been scaled by 2
\* although a target width and a target height were requested
C8_Witness ==
  /\ resizeCalled
  /\ before.width = <<"2", "e", "m">>
  /\ before.height = <<"5", "0", "m", "m">>
  /\ dimObj.scaleFactor = <<"2">>
  /\ dimObj.width = <<"1", ".", "5", "i", "n">>
  /\ dimObj.height = <<"2", "i", "n", "c", "h">>
  /\ svgDOM.width = <<"4", "e", "m">>
  /\ svgDOM.height = <<"1", "0", "0", "m", "m">>

oneTarget == (dimObj.width = Undefined) # (dimObj.height = Undefined)

theTarget == IF dimObj.width = Undefined THEN dimObj.height ELSE dimObj.width

\* the source pixel aspect ratio pxWidth / pxHeight
pixelRatio == NDiv(pixelsOf(before.width), pixelsOf(before.height))

\* C9: with absolute source dimensions and exactly one target, a target
\* that is not a number followed by px, cm, mm, in, inch or % leaves the
\* root unmodified; otherwise the requested axis is written as given with
\* inch turned into in, and the other axis is round(value * or / (pxWidth /
\* pxHeight)) followed by the target's unit.
C9_OneTargetKeepsRatio ==
  (resizeCalled /\ oneTarget
     /\ absoluteDimension(before.width) /\ absoluteDimension(before.height))
  => IF ~validTarget(theTarget) THEN svgDOM = before
     ELSE LET t == inchToIn(theTarget)
              v == Number(numberOf(t))
          IN  IF dimObj.height = Undefined
              THEN /\ svgDOM.width = t
                   /\ svgDOM.height = written(NDiv(v, pixelRatio), unitOf(t))
              ELSE /\ svgDOM.height = t
                   /\ svgDOM.width = written(NMul(v, pixelRatio), unitOf(t))

scaleFactorIsOne == dimObj.scaleFactor \in {Undefined, <<"1">>}

\* C11: when a first resize without target has converted a root with valid
\* absolute width and height, a second resize without target and with scale
\* factor 1 writes the same width and height again:
\* resize(resize(t)) = resize(t).
C11_ResizeIdempotent ==
  [][(/\ ncalls = 1 /\ ncalls' = 2
      /\ resizeCalled /\ noTarget
      /\ absoluteDimension(before.width) /\ absoluteDimension(before.height)
      /\ noTarget' /\ scaleFactorIsOne')
     => (svgDOM'.width = svgDOM.width /\ svgDOM'.height = svgDOM.height)]_vars

\* a 210mm x 297mm root scaled by 2 has been resized a second time with the
\* scale factor 1 and kept the em values of the first call
C11_Witness ==
  /\ ncalls = 2 /\ resizeCalled /\ noTarget /\ scaleFactorIsOne
  /\ before.width = <<"9", "9", ".", "2", "2", "5", "e", "m">>
  /\ svgDOM.width = <<"9", "9", ".", "2", "2", "5", "e", "m">>
  /\ svgDOM.height = before.height

(***************************************************************************)
(* The filter's claims, stated on Spec.                                    *)
(***************************************************************************)
replaced == pc = "done" /\ ret.t \in {"RawInline", "RawBlock"}

notRewrite(p) == p # "svg2to11"

\* the passes of the current call without the conversion to SVG 1.1
orderedPasses == SelectSeq(passes, notRewrite)

passRank(p) ==
  CASE p = "resize" -> 1
    [] p = "svgo" -> 2
    [] p = "removeTranslations" -> 3
    [] p = "optimizeTspan" -> 4
    [] p = "text2foreignObject" -> 5

\* C1: on the tree of one filter call the passes run in the order Resizer,
\* minification, translation folding, run-redundancy folding, Text
\* Converter, each at most once, so the minifier never runs after the Text
\* Converter; a call that returns a replacement has run all of them, the
\* Resizer unless it was skipped.
C1_PassOrder ==
  /\ \A i, j \in 1..Len(orderedPasses) :
       i < j => passRank(orderedPasses[i]) < passRank(orderedPasses[j])
  /\ replaced =>
       orderedPasses \in
         {<<"resize", "svgo", "removeTranslations", "optimizeTspan",
            "text2foreignObject">>,
          <<"svgo", "removeTranslations", "optimizeTspan",
            "text2foreignObject">>}

\* a figure has been replaced after the Resizer and the other passes ran
C1_Witness ==
  /\ replaced /\ ret.t = "RawBlock"
  /\ passes[1] = "resize"
  /\ passes[Len(passes) - 1] = "text2foreignObject"

positionOf(p) == CHOOSE i \in 1..Len(passes) : passes[i] = p

ran(p) == \E i \in 1..Len(passes) : passes[i] = p

\* C2 as stated: the compatibility rewrite runs right after run-redundancy
\* folding and before the Text Converter, and the Text Converter is the
\* last pass to touch the tree.
C2_RewriteBeforeTextConverter ==
  replaced =>
    /\ ran("svg2to11") /\ ran("text2foreignObject")
    /\ positionOf("svg2to11") = positionOf("optimizeTspan") + 1
    /\ positionOf("svg2to11") < positionOf("text2foreignObject")
    /\ passes[Len(passes)] = "text2foreignObject"

\* C2 amended: the compatibility rewrite never runs before the Text
\* Converter has finished; in a call that returns a replacement it runs
\* right after the Text Converter, which follows run-redundancy folding,
\* and it is the last pass to touch the tree.
C2_RewriteAfterTextConverter ==
  /\ ran("svg2to11") =>
       /\ ran("text2foreignObject")
       /\ positionOf("svg2to11") = positionOf("text2foreignObject") + 1
  /\ replaced =>
       /\ Len(passes) >= 3
       /\ SubSeq(passes, Len(passes) - 2, Len(passes)) =
            <<"optimizeTspan", "text2foreignObject", "svg2to11">>

\* a bare image has been replaced and the rewrite was the last pass
C2_Witness ==
  /\ replaced /\ ret.t = "RawInline"
  /\ passes[Len(passes)] = "svg2to11"

\* C3: a call to filter never throws, whatever the element, the outcome of
\* reading the file and the text elements of the loaded SVG.
C3_FilterNeverThrows == args.api = "filter" => ret.t # "throw"

formatMessages == {i \in 1..Len(stderr) : stderr[i].msg = "format"}

fileMessages(path) ==
  {i \in 1..Len(stderr) : stderr[i] = [msg |-> "file", arg |-> path]}

\* C4: over any sequence of calls the diagnostic of the unsupported output
\* format has been printed once if any call passed such a format and never
\* otherwise, the diagnostic of a missing file has been printed once for
\* each path some load found missing and never for another path, and a call
\* with an unsupported format or a missing file yields no replacement.
C4_DiagnosticsOncePerCause ==
  /\ Cardinality(formatMessages) = (IF unsupportedCalls > 0 THEN 1 ELSE 0)
  /\ \A path \in Paths :
       Cardinality(fileMessages(path)) = (IF missingLoads[path] > 0 THEN 1 ELSE 0)
  /\ Len(stderr) = Cardinality(formatMessages)
                     + Cardinality(UNION {fileMessages(path) : path \in Paths})
  /\ (pc = "done" /\ args.api \in {"filter", "compatibleOutputFormat"}
        /\ args.format # "html")
     => ret.t \in {"undefined", "false"}
  /\ (pc = "done" /\ args.load = "ENOENT") => ret.t \in {"undefined", "null"}

\* a path has been found missing twice, by filter and by loadSVG or twice
\* by one of them, after a call with an unsupported format
C4_Witness ==
  /\ pc = "done"
  /\ unsupportedCalls = 1
  /\ \E path \in Paths :
       missingLoads[path] = 2 /\ Cardinality(fileMessages(path)) = 1

\* an element that is an image, or a paragraph whose only child is an image
\* with a title starting with fig:
bareImage(elt) == elt.t = "Image"

figureParagraph(elt) ==
  /\ elt.t = "Para"
  /\ Len(elt.c.kids) = 1
  /\ elt.c.kids[1].t = "Image"
  /\ startsWith(elt.c.kids[1].c.img.title, <<"f", "i", "g", ":">>)

theImage(elt) == IF bareImage(elt) THEN elt.c.img ELSE elt.c.kids[1].c.img

notIgnore(class) == class # "ignore"

\* the image with ignore taken out of its class list and nothing else changed
withoutIgnore(img) == [img EXCEPT !.classes = SelectSeq(img.classes, notIgnore)]

ignoredCall(elt, format) ==
  /\ format = "html"
  /\ bareImage(elt) \/ figureParagraph(elt)
  /\ includes(theImage(elt).classes, "ignore")
  /\ isSVG(theImage(elt).fname)

\* C12: a call of filter for html on an image (or figure paragraph) with
\* class ignore and an SVG path loads no file, runs no pass, prints no
\* diagnostic and returns the same image without the class ignore, inside a
\* paragraph if the input was a figure paragraph.
C12_IgnoreReturnsImage ==
  [][(pc = "idle" /\ args'.api = "filter" /\ ignoredCall(args'.elt, args'.format))
     => /\ pc' = "done"
        /\ args'.load = "none"
        /\ passes' = <<>>
        /\ stderr' = stderr
        /\ filesNotFound' = filesNotFound
        /\ ret' = IF bareImage(args'.elt)
                  THEN Image(withoutIgnore(theImage(args'.elt)))
                  ELSE Para(<<Image(withoutIgnore(theImage(args'.elt)))>>)]_vars

\* a figure paragraph with the classes c, ignore, keep-size has come back
\* as a paragraph around the image with the classes c, keep-size
C12_Witness ==
  /\ pc = "done" /\ args.api = "filter"
  /\ ignoredCall(args.elt, args.format)
  /\ figureParagraph(args.elt)
  /\ ret.t = "Para"
  /\ ret.c.kids[1].c.img.classes = <<"c", "keep-size">>
  /\ ret.c.kids[1].c.img.keyvals = args.elt.c.kids[1].c.img.keyvals

\* the class list of the returned markup: the figure's class attribute, or
\* the className the filter sets for a bare image
outputClasses == IF ret.t = "RawBlock" THEN ret.c.class ELSE ret.c.svg.className

\* C13: for every image that is replaced and has the class keep-size,
\* whatever its key/value pairs, the Resizer has not run and keep-size is
\* not in the class list of the output.
C13_KeepSizeSkipsResizer ==
  (replaced /\ includes(theImage(args.elt).classes, "keep-size"))
  => (~ran("resize") /\ ~includes(outputClasses, "keep-size"))

\* the attributes the returned markup got from the key/value pairs: those
\* of the figure element, or those set on the svg element of a bare image
outputKeyvals == IF ret.t = "RawBlock" THEN ret.c.kvStr ELSE ret.c.svg.attrs

notIntercepted(kv) == kv[1] \notin {"width", "height", "scale-factor"}

\* C14: the markup of every replaced image carries, in order, the image's
\* key/value pairs other than width, height and scale-factor, a key that is
\* an HTML attribute name as it is and any other key with the prefix data-,
\* each with its value; width, height and scale-factor are never among them.
C14_InterceptedKeysNotProjected ==
  replaced =>
    outputKeyvals =
      toHTML5keyvals(SelectSeq(theImage(args.elt).keyvals, notIntercepted))

\* C15: a paragraph that is not exactly one image with a title starting
\* with fig: gets no replacement from filter (the call returns nothing, so
\* the paragraph keeps all its children); a replaced figure paragraph
\* yields a RawBlock and a replaced bare image a RawInline.
C15_FigureIsSingleImage ==
  /\ (pc = "done" /\ args.api = "filter" /\ args.elt.t = "Para"
        /\ ~figureParagraph(args.elt))
     => ret.t = "undefined"
  /\ replaced =>
       /\ ret.t = "RawBlock" <=> figureParagraph(args.elt)
       /\ ret.t = "RawInline" <=> bareImage(args.elt)

notKeepSize(class) == class # "keep-size"

\* the attributes of the svg element named class in the returned markup
svgClassAttributes ==
  {i \in 1..Len(ret.c.svg.attrs) : ret.c.svg.attrs[i][1] = <<"class">>}

\* C30: when a bare image is replaced, the classes it has left once
\* keep-size is removed are the value of the class attribute of the svg
\* element in the returned markup.
C30_ClassesOnSvgElement ==
  (replaced /\ bareImage(args.elt)
     /\ SelectSeq(theImage(args.elt).classes, notKeepSize) # <<>>)
  => \E i \in svgClassAttributes :
       ret.c.svg.attrs[i][2] =
         join(SelectSeq(theImage(args.elt).classes, notKeepSize))

(***************************************************************************)
(* Claims about the folding passes (specification OptimizeSpec).           *)
(***************************************************************************)
\* the paths from the root to the nodes of the trees used
Positions == UNION {[1..n -> 1..3] : n \in 0..3}

RECURSIVE validPosition(_, _)
validPosition(tree, p) ==
  \/ p = <<>>
  \/ /\ p[1] <= Len(tree.kids)
     /\ validPosition(tree.kids[p[1]], Tail(p))

RECURSIVE at(_, _)
at(tree, p) == IF p = <<>> THEN tree ELSE at(tree.kids[p[1]], Tail(p))

elementPositions(tree) ==
  {p \in Positions : validPosition(tree, p) /\ isElement(at(tree, p))}

parentOf(p) == SubSeq(p, 1, Len(p) - 1)

childPositions(tree, p) ==
  {c \in elementPositions(tree) : Len(c) = Len(p) + 1 /\ parentOf(c) = p}

foldCalled == args.api = "removeTranslations"

Separators == Blanks \cup {","}

\* the first translate term with two arguments, whatever separates them
translateTerm(transform) == matchTranslate(transform, Separators)

\* the terms of a transform list
RECURSIVE termsOf(_)
termsOf(s) ==
  IF s = <<>> THEN <<>>
  ELSE IF s[1] \in Separators THEN termsOf(Tail(s))
  ELSE LET closes == {i \in 1..Len(s) : s[i] = ")"}
           j == IF closes = {} THEN Len(s)
                ELSE CHOOSE i \in closes : \A h \in closes : i <= h
       IN  <<SubSeq(s, 1, j)>> \o termsOf(SubSeq(s, j + 1, Len(s)))

notTranslate(term) == ~translateTerm(term).match

carriesXY(elt) == elt.x # Null /\ elt.y # Null

allCarryXY(elt) ==
  /\ carriesXY(elt)
  /\ \A i \in 1..Len(elt.kids) : isElement(elt.kids[i]) => carriesXY(elt.kids[i])

\* the element of the claim: a translate term and x, y on itself and on
\* every direct child
foldable(elt) ==
  /\ elt.transform # Null
  /\ translateTerm(elt.transform).match
  /\ allCarryXY(elt)

increased(v, d) == roundToString(SignedAdd(SignedNumber(v), SignedNumber(d)))

\* x and y of the node at p once the translation of its parent (when the
\* parent is foldable) and its own (when it is foldable) have been added
expectedXY(p) ==
  LET elt == at(before, p)
      up == IF p # <<>> /\ foldable(at(before, parentOf(p)))
            THEN LET t == translateTerm(at(before, parentOf(p)).transform)
                 IN  <<increased(elt.x, t.x), increased(elt.y, t.y)>>
            ELSE <<elt.x, elt.y>>
  IN  IF foldable(elt)
      THEN LET t == translateTerm(elt.transform)
           IN  <<increased(up[1], t.x), increased(up[2], t.y)>>
      ELSE up

\* C16: after translation folding, every element that has a translate(dx,dy)
\* term in its transform (anywhere in the list, the arguments separated in
\* any way) and carries x and y, as every direct child does, has its own and
\* its children's x and y increased by dx and dy (rounded), has no translate
\* term left, keeps the other terms verbatim and loses the transform
\* attribute when no term remains.
C16_TranslationsFolded ==
  foldCalled =>
    \A p \in elementPositions(before) :
      foldable(at(before, p)) =>
        LET others == SelectSeq(termsOf(at(before, p).transform), notTranslate)
            after == at(svgDOM, p)
        IN  /\ <<after.x, after.y>> = expectedXY(p)
            /\ \A c \in childPositions(before, p) :
                 <<at(svgDOM, c).x, at(svgDOM, c).y>> = expectedXY(c)
            /\ others = <<>> => after.transform = Null
            /\ others # <<>> => /\ after.transform # Null
                                /\ termsOf(after.transform) = others

failsPrecondition(elt) == elt.transform # Null /\ ~allCarryXY(elt)

\* the element that the pass folds: its translate term has blanks between
\* the two arguments
folded(elt) ==
  /\ elt.transform # Null
  /\ translateRegex(elt.transform).match
  /\ allCarryXY(elt)

\* x and y of the node at p once the translation of a folded parent has been
\* added
movedByParent(p) ==
  LET elt == at(before, p)
  IN  IF p # <<>> /\ folded(at(before, parentOf(p)))
      THEN LET t == translateRegex(at(before, parentOf(p)).transform)
           IN  <<increased(elt.x, t.x), increased(elt.y, t.y)>>
      ELSE <<elt.x, elt.y>>

\* C17 as stated: a transform-carrying element that lacks x or y, or has a
\* direct child that lacks x or y, is the same after translation folding as
\* before, children included.
C17_FailingElementsUnmodified ==
  foldCalled =>
    \A p \in elementPositions(before) :
      failsPrecondition(at(before, p)) => at(svgDOM, p) = at(before, p)

\* C17: a transform-carrying element that lacks x or y, or has a direct child
\* that lacks x or y, is not folded: its transform string stays, its x and y
\* change only by the translation of a folded parent, and each child that is
\* not itself folded keeps its x, y and transform.
C17_FailingElementsNotFolded ==
  foldCalled =>
    \A p \in elementPositions(before) :
      failsPrecondition(at(before, p)) =>
        /\ at(svgDOM, p).transform = at(before, p).transform
        /\ <<at(svgDOM, p).x, at(svgDOM, p).y>> = movedByParent(p)
        /\ Len(at(svgDOM, p).kids) = Len(at(before, p).kids)
        /\ \A c \in childPositions(before, p) :
             ~folded(at(before, c)) =>
               /\ at(svgDOM, c).x = at(before, c).x
               /\ at(svgDOM, c).y = at(before, c).y
               /\ at(svgDOM, c).transform = at(before, c).transform

\* a failing element whose x and y a folded parent has moved, and a failing
\* element with a child lacking x and y that stayed as it was
C17_Witness ==
  /\ foldCalled
  /\ \E p \in elementPositions(before) :
       /\ failsPrecondition(at(before, p))
       /\ at(svgDOM, p).x # at(before, p).x
       /\ at(svgDOM, p).transform = at(before, p).transform
       /\ translateRegex(at(before, p).transform).match

tspanCalled == args.api = "optimizeTspan"

\* a list of child nodes with the empty text nodes dropped and adjacent text
\* nodes merged, as the serialized tree shows them
RECURSIVE normalized(_)
normalizedKids(kids) ==
  IF kids = <<>> THEN <<>>
  ELSE LET rest == normalized([tag |-> "list", kids |-> Tail(kids)]).kids
           k == kids[1]
       IN  IF isElement(k) THEN <<normalized(k)>> \o rest
           ELSE IF k.data = <<>> THEN rest
           ELSE IF rest # <<>> /\ ~isElement(rest[1])
                THEN <<TextNode(k.data \o rest[1].data)>> \o Tail(rest)
           ELSE <<k>> \o rest

normalized(node) == [node EXCEPT !.kids = normalizedKids(node.kids)]

\* the tree the claim describes: a tspan left without attributes gives its
\* place to its child nodes
RECURSIVE unwrapped(_)
unwrappedKids(parent, kids) ==
  IF kids = <<>> THEN <<>>
  ELSE LET rest == unwrapped([parent EXCEPT !.kids = Tail(kids)]).kids
           k == kids[1]
       IN  IF ~isElement(k) THEN <<k>> \o rest
           ELSE IF k.tag # "tspan" THEN <<unwrapped(k)>> \o rest
           ELSE IF ~hasAttributes(prune(k, parent)) THEN k.kids \o rest
           ELSE <<unwrapped(prune(k, parent))>> \o rest

unwrapped(parent) == [parent EXCEPT !.kids = unwrappedKids(parent, parent.kids)]

\* C18: after run-redundancy folding, each tspan that the x/y and style
\* pruning left without attributes is gone and its child nodes (text and
\* nested runs, in their order) stand in its place; a tspan with an attribute
\* left is still there.
C18_UnwrappedContentInPlace ==
  tspanCalled => normalized(svgDOM) = normalized(unwrapped(before))

\* the transform is one translate(dx dy) and nothing else
singleTranslate(transform) ==
  translateRegex(transform).match /\ Len(termsOf(transform)) = 1

\* no element from the root down to the one at p has a transform other than
\* a single translate
onlyTranslations(tree, p) ==
  \A n \in 0..Len(p) :
    LET transform == at(tree, SubSeq(p, 1, n)).transform
    IN  transform = Null \/ singleTranslate(transform)

\* x and y of the element at p with the translations of the elements at
\* its prefixes of length n and more (itself included) added
RECURSIVE effectivePosition(_, _, _)
effectivePosition(tree, p, n) ==
  IF n > Len(p) THEN <<at(tree, p).x, at(tree, p).y>>
  ELSE LET inner == effectivePosition(tree, p, n + 1)
           transform == at(tree, SubSeq(p, 1, n)).transform
       IN  IF transform = Null THEN inner
           ELSE <<increased(inner[1], translateRegex(transform).x),
                  increased(inner[2], translateRegex(transform).y)>>

properPrefix(p, d) == Len(p) < Len(d) /\ SubSeq(d, 1, Len(p)) = p

\* C28: when an element whose transform is a single translate(dx dy) is
\* folded, every descendant that carries x and y, a child or deeper, is at
\* the same effective position (its x and y plus the translations above
\* it) after the pass as before.
C28_EffectivePositionsKept ==
  foldCalled =>
    \A p \in elementPositions(before) :
      \A d \in elementPositions(before) :
        (/\ properPrefix(p, d)
         /\ folded(at(before, p))
         /\ singleTranslate(at(before, p).transform)
         /\ carriesXY(at(before, d))
         /\ onlyTranslations(before, d))
        => effectivePosition(svgDOM, d, 0) = effectivePosition(before, d, 0)

rewriteCalled == args.api = "svg2to11"

\* the element at p lies inside a marker: one of its ancestors is a marker
insideMarker(tree, p) ==
  \E n \in 0..(Len(p) - 1) : at(tree, SubSeq(p, 1, n)).tag = "marker"

isContextStroke(decl) ==
  /\ decl[1] \in {"fill", "stroke"}
  /\ decl[2] = <<"c", "o", "n", "t", "e", "x", "t", "-", "s", "t", "r", "o", "k", "e">>

\* the declaration a context-stroke paint has become: the same property
\* with the value #000
isBlackFor(new, old) == new[1] = old[1] /\ new[2] = <<"#", "0", "0", "0">>

\* the node with its children left out
own(node) == [node EXCEPT !.kids = <<>>]

\* C27: after svg2to11 no element inside a marker has an inline style fill
\* or stroke of context-stroke: each such declaration has the value #000;
\* every other declaration of those elements, all their other data, and
\* every element that is not inside a marker are as they were.
C27_NoContextStrokeInMarkers ==
  rewriteCalled
  => /\ elementPositions(svgDOM) = elementPositions(before)
     /\ \A p \in elementPositions(before) :
          LET old == at(before, p)
              new == at(svgDOM, p)
          IN  IF insideMarker(before, p)
              THEN /\ own(new) = [own(old) EXCEPT !.style = new.style]
                   /\ Len(new.style) = Len(old.style)
                   /\ \A i \in 1..Len(old.style) :
                        /\ ~isContextStroke(new.style[i])
                        /\ IF isContextStroke(old.style[i])
                           THEN isBlackFor(new.style[i], old.style[i])
                           ELSE new.style[i] = old.style[i]
              ELSE own(new) = own(old)

\* a path three levels below the root, inside a marker, had a fill of
\* context-stroke and a stroke of red: the fill is #000, the stroke is red,
\* and a path outside the marker has kept its stroke of context-stroke
C27_Witness ==
  /\ rewriteCalled
  /\ validPosition(before, <<1, 1, 1>>)
  /\ insideMarker(before, <<1, 1, 1>>)
  /\ at(before, <<1, 1, 1>>).style # <<>>
  /\ isContextStroke(at(before, <<1, 1, 1>>).style[1])
  /\ Len(at(before, <<1, 1, 1>>).style) = 3
  /\ at(svgDOM, <<1, 1, 1>>).style[1][2] = <<"#", "0", "0", "0">>
  /\ at(svgDOM, <<1, 1, 1>>).style[2] = at(before, <<1, 1, 1>>).style[2]
  /\ validPosition(before, <<2>>)
  /\ isContextStroke(at(before, <<2>>).style[1])
  /\ at(svgDOM, <<2>>) = at(before, <<2>>)

tspanPositions(tree) ==
  {p \in elementPositions(tree) : Len(p) > 0 /\ at(tree, p).tag = "tspan"}

declarations(elt) == {elt.style[i] : i \in 1..Len(elt.style)}

\* the tspan has data that its parent does not repeat: an x or y with
\* another string, a style declaration with another value or priority, or
\* an attribute other than x, y and style
hasOwnData(tspan, parent) ==
  \/ tspan.x # Null /\ tspan.x # parent.x
  \/ tspan.y # Null /\ tspan.y # parent.y
  \/ declarations(tspan) \ declarations(parent) # {}
  \/ tspan.attrs # <<>>

\* new is the tspan old with nothing but repeated data taken away
onlyRedundantRemoved(new, old, parent) ==
  /\ new.x \in {old.x, Null}
  /\ new.y \in {old.y, Null}
  /\ old.x # parent.x => new.x = old.x
  /\ old.y # parent.y => new.y = old.y
  /\ declarations(old) \ declarations(parent) \subseteq declarations(new)
  /\ declarations(new) \subseteq declarations(old)
  /\ new.attrs = old.attrs

\* C24: optimizeTspan takes nothing but repeated data from a tspan: an x or
\* y whose string differs from the parent's ("1.0" against "1"), a style
\* declaration whose value or priority differs from the parent's, and every
\* other attribute of a tspan is on a tspan of the tree after the pass.
C24_OnlyRedundantDataRemoved ==
  tspanCalled =>
    \A p \in tspanPositions(before) :
      hasOwnData(at(before, p), at(before, parentOf(p)))
      => \E q \in tspanPositions(svgDOM) :
           onlyRedundantRemoved(at(svgDOM, q), at(before, p),
                                at(before, parentOf(p)))

(***************************************************************************)
(* Claims about the Text Converter (specification Spec).                   *)
(***************************************************************************)
\* the step in which the Text Converter runs to its end
converted == pc = "text2foreignObject" /\ pc' # "done"

isText(elt) == elt.tag = "text"

emptyText(elt) == isText(elt) /\ flattenTextChildren(elt).markdown = <<>>

notEmptyText(elt) == ~emptyText(elt)

\* C19: once the Text Converter has run, none of the text elements of the
\* tree is left: those with empty flattened content are gone without a
\* replacement, and each other one has exactly one foreignObject in its
\* place, the elements around it where they were.
C19_NoTextElementRemains ==
  [][converted =>
       LET kept == SelectSeq(svgDOM.elts, notEmptyText)
       IN  /\ \A i \in 1..Len(svgDOM'.elts) : ~isText(svgDOM'.elts[i])
           /\ Len(svgDOM'.elts) = Len(kept)
           /\ \A i \in 1..Len(kept) :
                IF isText(kept[i])
                THEN /\ svgDOM'.elts[i].tag = "foreignObject"
                     /\ svgDOM'.elts[i].markdown
                          = flattenTextChildren(kept[i]).markdown
                ELSE svgDOM'.elts[i] = kept[i]]_vars

\* the tree of an empty text element, a path and a text element after the
\* Text Converter: the path and one foreignObject
C19_Witness ==
  /\ pc = "svg2to11"
  /\ ran("text2foreignObject")
  /\ Len(svgDOM.elts) = 2
  /\ svgDOM.elts[1] = PathElt
  /\ svgDOM.elts[2].tag = "foreignObject"
  /\ svgDOM.elts[2].fontSize = <<"1", "0", ".", "5", "p", "x">>

\* the font-sizes the child elements of a text element specify
childFontSizes(textElt) ==
  {textElt.kids[i].fontSize : i \in 1..Len(textElt.kids)} \ {<<>>}

\* C22: a text element that specifies a font-size has that font-size after
\* flattening, whatever its children specify; a child's font-size becomes
\* the text element's only when the text element has none.  The font-size
\* after flattening is the one its foreignObject gets.
C22_OwnFontSizeKept ==
  [][converted =>
       LET kept == SelectSeq(svgDOM.elts, notEmptyText)
       IN  \A i \in 1..Len(kept) :
             (isText(kept[i]) /\ i <= Len(svgDOM'.elts)) =>
               IF kept[i].fontSize # <<>>
               THEN svgDOM'.elts[i].fontSize = kept[i].fontSize
               ELSE childFontSizes(kept[i]) # {}
                      => svgDOM'.elts[i].fontSize \in childFontSizes(kept[i])]_vars

\* the content is one equation: a $, at least one character that is not a
\* $, and a $ at the end
exactlyOneEquation(markdown) ==
  /\ Len(markdown) >= 3
  /\ markdown[1] = "$"
  /\ markdown[Len(markdown)] = "$"
  /\ \A j \in 2..(Len(markdown) - 1) : markdown[j] # "$"

\* C23: the content of a text element is converted by the substitution of
\* the delimiters exactly when it is one equation, $ at both ends and none
\* in between; any other content, such as $a$ and **bold** text, is given
\* to pandoc.
C23_FastPathOnlyForOneEquation ==
  \A i \in 1..Len(svgDOM.elts) :
    svgDOM.elts[i].tag = "foreignObject" =>
      \A k \in 1..Len(svgDOM.elts[i].kids) :
        svgDOM.elts[i].kids[k].html.by = "convertMathJaxDelimiters"
          <=> exactlyOneEquation(svgDOM.elts[i].markdown)

\* what the claim asks of the foreignObject that replaces the text element
\* source, flattened
builtFrom(block, source) ==
  /\ block.x = source.x
  /\ block.y = source.y
  /\ block.width = IF source.inlineSize # <<>> THEN source.inlineSize
                   ELSE <<"1", "0", "0", "0">>
  /\ source.inlineSize = <<>> => block.overflow = "visible"
  /\ block.height = <<"1">>
  /\ block.transform = source.transform
  /\ block.fontSize = IF source.fontSize # <<>> THEN source.fontSize
                      ELSE <<"1", "6", "p", "x">>
  /\ block.fontFamily = source.fontFamily
  /\ block.color = source.fill
  /\ block.opacity = source.opacity

\* C25: the foreignObject of a text element has the x and y attributes of
\* the text element, as width its inline-size or else 1000 with overflow
\* visible, height 1, its transform if it has one and none otherwise, and
\* in its style the font-size (16px when there is none) and the
\* font-family, the fill as color and the opacity exactly when the text
\* element specifies them.
C25_BlockBuiltFromSource ==
  [][converted =>
       LET kept == SelectSeq(svgDOM.elts, notEmptyText)
       IN  \A i \in 1..Len(kept) :
             (isText(kept[i]) /\ i <= Len(svgDOM'.elts)) =>
               builtFrom(svgDOM'.elts[i], flattenTextChildren(kept[i]))]_vars

\* the number in front of px in a font-size of that form
pixels(fontSize) == Number(SubSeq(fontSize, 1, Len(fontSize) - 2))

\* the first top-level element, and no other, has the span of the given
\* height in front and the negative of that height as top margin
baselineCompensated(block, height) ==
  /\ Len(block.kids) >= 1
  /\ block.kids[1].span = [height |-> height, display |-> "inline-block"]
  /\ block.kids[1].marginTop = <<"-">> \o height
  /\ \A k \in 2..Len(block.kids) :
       block.kids[k].span = <<>> /\ block.kids[k].marginTop = <<>>

translateXOf(percent) ==
  <<"t", "r", "a", "n", "s", "l", "a", "t", "e", "X", "(">> \o percent \o <<"%", ")">>

\* what the claim asks of the foreignObject that replaces a text element with
\* the given text-anchor
compensated(textAnchor, block) ==
  CASE textAnchor = "middle" ->
         /\ \A i \in 1..Len(block.kids) :
              block.kids[i].transform = translateXOf(<<"-", "5", "0">>)
         /\ block.textAlign = "center"
    [] textAnchor = "end" ->
         /\ \A i \in 1..Len(block.kids) :
              block.kids[i].transform = translateXOf(<<"-", "1", "0", "0">>)
         /\ block.textAlign = "end"
    [] textAnchor \in {"start", ""} ->
         /\ \A i \in 1..Len(block.kids) : block.kids[i].transform = <<>>
         /\ block.textAlign = ""
    [] OTHER -> TRUE

\* C20: anchor compensation.  The foreignObject of a text element with
\* text-anchor middle has translateX(-50%) on every top-level child and
\* text-align center; with text-anchor end, translateX(-100%) and text-align
\* end; with text-anchor start or none, no transform on a child and no
\* text-align.
C20_AnchorCompensation ==
  [][converted =>
       LET kept == SelectSeq(svgDOM.elts, notEmptyText)
       IN  \A i \in 1..Len(kept) :
             (isText(kept[i]) /\ i <= Len(svgDOM'.elts)) =>
               /\ Len(svgDOM'.elts[i].kids) >= 1
               /\ compensated(kept[i].textAnchor, svgDOM'.elts[i])]_vars

\* a foreignObject with two top-level children made of a text element with
\* text-anchor end
C20_Witness ==
  /\ pc = "svg2to11"
  /\ ran("text2foreignObject")
  /\ \E i \in 1..Len(svgDOM.elts) :
       /\ svgDOM.elts[i].tag = "foreignObject"
       /\ Len(svgDOM.elts[i].kids) = 2
       /\ svgDOM.elts[i].textAlign = "end"
       /\ svgDOM.elts[i].kids[2].transform = translateXOf(<<"-", "1", "0", "0">>)

====
